---- MODULE Spec2Model ----
(***************************************************************************)
(* Model of the triage execution graph of backend/src/orchestrator.py:     *)
(* the orchestrator node (Router), the conditional fan-out, the wrapped    *)
(* sub-agent nodes (infoblox, aci, palo_alto), the sub_agent_results       *)
(* reducer and the triage node (Aggregator).  The graph is run the way     *)
(* the compiled StateGraph runs it: in supersteps, the nodes of a          *)
(* superstep concurrently, their writes merged when all of them have       *)
(* finished, the nodes of the next superstep chosen from the graph edges.  *)
(* Around the graph: the two SSE adapters (backend/src/streaming.py and    *)
(* the one /chat uses in backend/src/main.py), the consumer's decoding of  *)
(* a frame (frontend/app.py) and the model override of the /chat handler.  *)
(***************************************************************************)
EXTENDS Integers, Sequences, FiniteSets, TLC

\* ------------------------------------------------------------- bounds ----
\* longest next_steps list the planning LLM is taken to return
MaxSteps == 2

\* longest list handed to the reducer on its own
MaxList == 2

\* longest source event sequence handed to the SSE adapter on its own
MaxEvents == 2

\* longest text of a report field put on the wire
MaxText == 2

\* most thought events the frontend is handed in one session
MaxThoughts == 4

\* ---------------------------------------------------------- vocabulary ----
END == "__end__"

\* incident_data.get(key): the key is absent (None), empty, or an address
Missing == "None"
IPValues == {Missing, "", "10.0.0.1"}

\* names the planning LLM may put in next_steps
StepNames == {"infoblox", "aci", "palo_alto", "sub_agents", "firewall"}

Workers == {"infoblox", "aci", "palo_alto"}
Diagnostic == {"aci", "palo_alto"}
Nodes == {"orchestrator", "infoblox", "aci", "palo_alto", "triage"}

ErrTexts == {"API Error"}
ReasonTexts == {"r1", "r2"}

RECURSIVE SeqsUpTo(_, _)
SeqsUpTo(S, n) ==
    IF n = 0 THEN {<<>>}
    ELSE LET shorter == SeqsUpTo(S, n - 1)
         IN  shorter \cup {Append(s, x) : s \in {t \in shorter : Len(t) = n - 1}, x \in S}

Range(s) == {s[i] : i \in 1..Len(s)}

\* ------------------------------------------------------------- models ----
\* OrchestratorDecision; kind "none" is the unset field of the state
NoDecision == [kind |-> "none", next_steps |-> <<>>, text |-> "", err |-> ""]

Decision(steps, text, err) ==
    [kind |-> "decision", next_steps |-> steps, text |-> text, err |-> err]

\* SubAgentResult; raw_data and summary carry the error text on failure
SubAgentResult(name, status, err) ==
    [agent_name |-> name, status |-> status, err |-> err]

\* TriageReport; kind "unset" is the unset field of the state, kind
\* "malformed" a value returned by the LLM that is not a TriageReport
NoReport ==
    [kind |-> "unset", root_cause |-> "", details |-> "", action |-> "",
     failed_agents |-> <<>>]

TriageReport(root, details, action, failed) ==
    [kind |-> "report", root_cause |-> root, details |-> details,
     action |-> action, failed_agents |-> failed]

\* ------------------------------------------------- external collaborators ----
\* What structured_llm.invoke does in the orchestrator: return a decision,
\* raise, or return a value that is not a decision (None).
PlannerAnswers ==
    {[kind |-> "decision", next_steps |-> s, text |-> r, err |-> ""] :
        s \in SeqsUpTo(StepNames, MaxSteps), r \in ReasonTexts}
    \cup {[kind |-> "raise", next_steps |-> <<>>, text |-> "", err |-> e] : e \in ErrTexts}
    \cup {[kind |-> "malformed", next_steps |-> <<>>, text |-> "", err |-> ""]}

\* What structured_llm.invoke does in triage: return a report (with any
\* failed_agents of the LLM's own), raise, or return a non-report.
LLMFailedAgents == {<<>>, <<"aci">>}
SummarizerAnswers ==
    {[kind |-> k, failed_agents |-> f, err |-> ""] :
        k \in {"report", "malformed"}, f \in LLMFailedAgents}
    \cup {[kind |-> "raise", failed_agents |-> <<>>, err |-> e] : e \in ErrTexts}

\* ----------------------------------------------------------- the state ----
VARIABLES
    incident_data,      \* AgentState.incident_data
    next_node,          \* AgentState.next_node
    decision,           \* AgentState.decision
    sub_agent_results,  \* AgentState.sub_agent_results
    triage_report,      \* AgentState.triage_report
    planner,            \* the answer the planning LLM gives when invoked
    active,             \* nodes of the current superstep
    pc,                 \* per node: idle, scheduled, running, done
    pending,            \* writes of the finished nodes, in completion order
    status,             \* of the run: running, done, failed
    error,              \* the exception raised to the caller, if any
    runs,               \* per node: number of executions in this run
    plan_calls,         \* invocations of the planning LLM
    raised,             \* workers whose agent.invoke raised
    summary_kind,       \* what the summarization call did: none, report, raise, malformed
    llm_failed_agents,  \* the failed_agents of the summarization LLM's own answer
    m_left,             \* merge_sub_agent_results applied on its own: left argument
    m_right,            \* right argument
    m_third,            \* a third branch, for regrouped merges
    m_out,              \* the merges computed from them
    sse,                \* frames streaming.stream_graph_events has yielded for this run
    chat_frames,        \* frames main.stream_graph_events has yielded for this run
    s_events,           \* the SSE adapter on its own: the source events
    s_pos,              \* how many of them the loop has consumed
    s_chunks,           \* per consumed event, the frames yielded for it
    c_report,           \* the wire format on its own: the report encoded
    c_wire,             \* the frame, as characters
    c_data,             \* the dict the consumer decoded
    c_pc,               \* idle, start, encoded, decoded
    request,            \* the /chat handler: the ChatRequest
    default_config,     \* the AppConfig get_config returns
    config,             \* the AppConfig handed to build_graph
    llm_calls,          \* the get_llm calls of build_graph, in order
    chat_pc,            \* idle, received, building, built, failed
    t_results,          \* the triage node on its own: the sub_agent_results it reads
    t_answer,           \* what the summarization LLM does
    t_out,              \* the partition it made and the update it returned
    agent_tabs,         \* the frontend: state["agent_tabs"], node -> tab
    tab_order,          \* state["tab_order"]
    new_tab_created,    \* state["new_tab_created"]
    ui_history,         \* the thought events handled so far, oldest first
    ui_delta            \* what handle_thought_event returned for the last

vars == <<incident_data, next_node, decision, sub_agent_results, triage_report,
          planner, active, pc, pending, status, error, runs, plan_calls,
          raised, summary_kind, llm_failed_agents, m_left, m_right, m_third, m_out,
          sse, chat_frames, s_events, s_pos, s_chunks, c_report, c_wire, c_data,
          c_pc, request, default_config, config, llm_calls, chat_pc,
          t_results, t_answer, t_out, agent_tabs, tab_order, new_tab_created,
          ui_history, ui_delta>>

\* the variables of the reducer applied on its own
reducer_vars == <<m_left, m_right, m_third, m_out>>

\* the variables of the run of the graph
graph_vars == <<incident_data, next_node, decision, sub_agent_results,
                triage_report, planner, active, pc, pending, status, error,
                runs, plan_calls, raised, summary_kind, llm_failed_agents,
                sse, chat_frames>>

\* the variables of the SSE adapter, the wire format and the /chat handler
\* applied on their own
stream_vars == <<s_events, s_pos, s_chunks>>
codec_vars == <<c_report, c_wire, c_data, c_pc>>
chat_vars == <<request, default_config, config, llm_calls, chat_pc>>
triage_vars == <<t_results, t_answer, t_out>>
ui_vars == <<agent_tabs, tab_order, new_tab_created, ui_history, ui_delta>>

\* ------------------------------------------------------ orchestrator ----
\* `not value`: None and the empty string are both falsy
Falsy(v) == v = Missing \/ v = ""

\* faulty variant: `and` for `or` in the validation
NeedsEnrichment_and(incident) ==
    Falsy(incident.source_ip) /\ Falsy(incident.destination_ip)

\* the input validation of orchestrator_node
NeedsEnrichment(incident) ==
    Falsy(incident.source_ip) \/ Falsy(incident.destination_ip)

\* faulty variant: the enrichment decision also names a diagnostic worker
EnrichmentDecision_wide ==
    Decision(<<"infoblox", "aci">>,
             "Missing source_ip or destination_ip. Routing to Infoblox for IPAM enrichment.",
             "")

EnrichmentDecision ==
    Decision(<<"infoblox">>,
             "Missing source_ip or destination_ip. Routing to Infoblox for IPAM enrichment.",
             "")

\* faulty variant: the fallback names one diagnostic worker only
FallbackDecision_one(e) ==
    Decision(<<"aci">>, "LLM parsing failed, defaulting to full scan. Error: ", e)

\* faulty variant: the fallback also asks for enrichment
FallbackDecision_enrich(e) ==
    Decision(<<"infoblox", "aci", "palo_alto">>,
             "LLM parsing failed, defaulting to full scan. Error: ", e)

\* the decision substituted when the planning call raises e
FallbackDecision(e) ==
    Decision(<<"aci", "palo_alto">>,
             "LLM parsing failed, defaulting to full scan. Error: ", e)

\* faulty variant: the default steps replace whatever the planner named
EnsureSteps_always(d) == [d EXCEPT !.next_steps = <<"aci", "palo_alto">>]

\* faulty variant: empty steps are passed on
EnsureSteps_skip(d) == d

\* "Ensure we have valid steps"
EnsureSteps(d) ==
    IF d.next_steps = <<>> THEN [d EXCEPT !.next_steps = <<"aci", "palo_alto">>]
    ELSE d

\* orchestrator_node(state) with the planning LLM answering `answer`:
\* the state update it returns, or the exception it lets escape
orchestrator_node(incident, answer) ==
    IF NeedsEnrichment(incident)
    THEN [raises |-> FALSE, err |-> "", called |-> FALSE,
          keys |-> {"next_node", "decision"}, next_node |-> "infoblox",
          decision |-> EnrichmentDecision]
    ELSE IF answer.kind = "malformed"
    THEN \* decision.next_steps on a value that is not a decision
         [raises |-> TRUE, err |-> "AttributeError", called |-> TRUE,
          keys |-> {}, next_node |-> "", decision |-> NoDecision]
    ELSE [raises |-> FALSE, err |-> "", called |-> TRUE,
          keys |-> {"decision"}, next_node |-> "",
          decision |-> EnsureSteps(IF answer.kind = "raise"
                                   THEN FallbackDecision(answer.err)
                                   ELSE Decision(answer.next_steps, answer.text, ""))]

\* faulty variant: the catch-all is forgotten on the palo_alto line
fan_out_router_nocatch(d) ==
    LET next_steps == Range(d.next_steps)
        n1 == IF "infoblox" \in next_steps THEN <<"infoblox">> ELSE <<>>
        n2 == IF "aci" \in next_steps \/ "sub_agents" \in next_steps
              THEN <<"aci">> ELSE <<>>
        n3 == IF "palo_alto" \in next_steps THEN <<"palo_alto">> ELSE <<>>
        nodes_to_run == n1 \o n2 \o n3
    IN  IF nodes_to_run = <<>> THEN <<END>> ELSE nodes_to_run

\* faulty variant: with nothing matched the router falls through to triage
fan_out_router_triage(d) ==
    LET next_steps == Range(d.next_steps)
        n1 == IF "infoblox" \in next_steps THEN <<"infoblox">> ELSE <<>>
        n2 == IF "aci" \in next_steps \/ "sub_agents" \in next_steps
              THEN <<"aci">> ELSE <<>>
        n3 == IF "palo_alto" \in next_steps \/ "sub_agents" \in next_steps
              THEN <<"palo_alto">> ELSE <<>>
        nodes_to_run == n1 \o n2 \o n3
    IN  IF nodes_to_run = <<>> THEN <<"triage">> ELSE nodes_to_run

\* faulty variant: a name given twice is taken for the catch-all
fan_out_router_dupall(d) ==
    LET next_steps == Range(d.next_steps)
        dup == \E i, j \in 1..Len(d.next_steps) : i < j /\ d.next_steps[i] = d.next_steps[j]
        n1 == IF "infoblox" \in next_steps THEN <<"infoblox">> ELSE <<>>
        n2 == IF "aci" \in next_steps \/ "sub_agents" \in next_steps \/ dup
              THEN <<"aci">> ELSE <<>>
        n3 == IF "palo_alto" \in next_steps \/ "sub_agents" \in next_steps \/ dup
              THEN <<"palo_alto">> ELSE <<>>
        nodes_to_run == n1 \o n2 \o n3
    IN  IF nodes_to_run = <<>> THEN <<END>> ELSE nodes_to_run

\* faulty variant: the router reads the reasoning text for a hint
fan_out_router_reasoning(d) ==
    LET next_steps == Range(d.next_steps)
        hint == d.text = "r2"
        n1 == IF "infoblox" \in next_steps THEN <<"infoblox">> ELSE <<>>
        n2 == IF "aci" \in next_steps \/ "sub_agents" \in next_steps \/ hint
              THEN <<"aci">> ELSE <<>>
        n3 == IF "palo_alto" \in next_steps \/ "sub_agents" \in next_steps \/ hint
              THEN <<"palo_alto">> ELSE <<>>
        nodes_to_run == n1 \o n2 \o n3
    IN  IF nodes_to_run = <<>> THEN <<END>> ELSE nodes_to_run

\* fan_out_router(state): the nodes to run next, or [END]
fan_out_router(d) ==
    LET next_steps == Range(d.next_steps)
        n1 == IF "infoblox" \in next_steps THEN <<"infoblox">> ELSE <<>>
        n2 == IF "aci" \in next_steps \/ "sub_agents" \in next_steps
              THEN <<"aci">> ELSE <<>>
        n3 == IF "palo_alto" \in next_steps \/ "sub_agents" \in next_steps
              THEN <<"palo_alto">> ELSE <<>>
        nodes_to_run == n1 \o n2 \o n3
    IN  IF nodes_to_run = <<>> THEN <<END>> ELSE nodes_to_run

\* --------------------------------------------------------- sub-agents ----
\* infoblox_node / aci_node / palo_node: agent.invoke returns (e = "") or
\* raises e, which the node turns into a FAILURE result
agent_node(name, e) ==
    IF e = "" THEN SubAgentResult(name, "SUCCESS", "")
    ELSE SubAgentResult(name, "FAILURE", e)

\* wrap_sub_agent: the state update of a sub-agent node
wrapped_node(name, e) == <<agent_node(name, e)>>

\* an argument of the reducer: None, or a list
NoneList == [none |-> TRUE, items |-> <<>>]
SomeList(items) == [none |-> FALSE, items |-> items]

\* `x or []`
OrEmpty(x) == IF x.none \/ x.items = <<>> THEN <<>> ELSE x.items

\* faulty variant: the reducer keeps the last write only
merge_sub_agent_results_last(left, right) == OrEmpty(right)

\* faulty variant: a result whose agent_name is already on the left is dropped
merge_sub_agent_results_dedupe(left, right) ==
    OrEmpty(left) \o
    SelectSeq(OrEmpty(right),
              LAMBDA x : \A i \in 1..Len(OrEmpty(left)) :
                            OrEmpty(left)[i].agent_name # x.agent_name)

\* faulty variant: a result on the right replaces the left ones of its agent
merge_sub_agent_results_replace(left, right) ==
    SelectSeq(OrEmpty(left),
              LAMBDA x : \A i \in 1..Len(OrEmpty(right)) :
                            OrEmpty(right)[i].agent_name # x.agent_name)
    \o OrEmpty(right)

\* the reducer of sub_agent_results
merge_sub_agent_results(left, right) == OrEmpty(left) \o OrEmpty(right)

\* ------------------------------------------------------------- triage ----
\* faulty variant: whatever is not a SUCCESS counts as failed
IsFailure_notsuccess(res) == res.status # "SUCCESS"

IsFailure(res) == res.status = "FAILURE"

failed_results(results) == SelectSeq(results, IsFailure)

successful_results(results) == SelectSeq(results, LAMBDA res : ~IsFailure(res))

failed_agent_names(results) ==
    [i \in 1..Len(failed_results(results)) |-> failed_results(results)[i].agent_name]

\* faulty variant: no fallback report when the summarization call raises
triage_node_nofallback(results, answer) ==
    IF answer.kind = "report"
    THEN TriageReport("llm root cause", "llm details", "llm action",
                      failed_agent_names(results))
    ELSE [kind |-> "malformed", root_cause |-> "", details |-> "",
          action |-> "", failed_agents |-> answer.failed_agents]

\* faulty variant: the failed_agents of the LLM's report are kept
triage_node_llmfailed(results, answer) ==
    IF answer.kind = "raise"
    THEN TriageReport("Analysis Failed", answer.err,
                      "Manual investigation required", failed_agent_names(results))
    ELSE IF answer.kind = "report"
    THEN TriageReport("llm root cause", "llm details", "llm action",
                      answer.failed_agents)
    ELSE [kind |-> "malformed", root_cause |-> "", details |-> "",
          action |-> "", failed_agents |-> answer.failed_agents]

\* faulty variant: the fallback report leaves failed_agents at its default
triage_node_fallbackempty(results, answer) ==
    IF answer.kind = "raise"
    THEN TriageReport("Analysis Failed", answer.err,
                      "Manual investigation required", <<>>)
    ELSE IF answer.kind = "report"
    THEN TriageReport("llm root cause", "llm details", "llm action",
                      failed_agent_names(results))
    ELSE [kind |-> "malformed", root_cause |-> "", details |-> "",
          action |-> "", failed_agents |-> answer.failed_agents]

\* triage_node(state) with the summarization LLM answering `answer`
triage_node(results, answer) ==
    IF answer.kind = "raise"
    THEN TriageReport("Analysis Failed", answer.err,
                      "Manual investigation required", failed_agent_names(results))
    ELSE IF answer.kind = "report"
    THEN TriageReport("llm root cause", "llm details", "llm action",
                      failed_agent_names(results))
    ELSE \* not a TriageReport: passed on as it came
         [kind |-> "malformed", root_cause |-> "", details |-> "",
          action |-> "", failed_agents |-> answer.failed_agents]

\* -------------------------------------------------------------- graph ----
\* faulty variant: the sub-agents still lead to END, as before the triage node
EdgeTargets_end(n) ==
    IF n \in Workers THEN {END}
    ELSE IF n = "triage" THEN {END}
    ELSE {}

\* faulty variant: enrichment loops back to the orchestrator
EdgeTargets_loop(n) ==
    IF n = "infoblox" THEN {"orchestrator"}
    ELSE IF n \in Workers THEN {"triage"}
    ELSE IF n = "triage" THEN {END}
    ELSE {}

\* add_edge: the static edges out of a node
EdgeTargets(n) ==
    IF n \in Workers THEN {"triage"}
    ELSE IF n = "triage" THEN {END}
    ELSE {}

\* a write of a finished node: the keys of its state update and the nodes
\* its outgoing edges name; no node of the graph returns incident_data
Write(n, keys, nn, d, results, report, targets) ==
    [node |-> n, keys |-> keys, next_node |-> nn, decision |-> d,
     results |-> results, triage_report |-> report, targets |-> targets,
     incident_data |-> [source_ip |-> Missing, destination_ip |-> Missing]]

\* faulty variant: the superstep ends with the first node that finishes
BarrierReached_first == \E n \in active : pc[n] = "done"

\* every node of the superstep has finished
BarrierReached == \A n \in active : pc[n] = "done"

RECURSIVE MergeWrites(_, _)
MergeWrites(acc, ws) ==
    IF ws = <<>> THEN acc
    ELSE MergeWrites(IF "sub_agent_results" \in Head(ws).keys
                     THEN merge_sub_agent_results(SomeList(acc), SomeList(Head(ws).results))
                     ELSE acc,
                     Tail(ws))

HasKey(ws, key) == \E i \in 1..Len(ws) : key \in ws[i].keys
LastWith(ws, key) == ws[CHOOSE i \in 1..Len(ws) :
                          /\ key \in ws[i].keys
                          /\ \A j \in (i + 1)..Len(ws) : key \notin ws[j].keys]

NextNodes(ws) == (UNION {ws[i].targets : i \in 1..Len(ws)}) \ {END}

\* the merges of three branch values: both orders, both groupings
NoMerge == [done |-> FALSE, lr |-> <<>>, rl |-> <<>>, lr_t |-> <<>>, l_rt |-> <<>>]

\* ---------------------------------------------------------- streaming ----
\* a source event of workflow.astream_events: its type, metadata.langgraph_node
\* ("" when the metadata names none), its name, and data.output: whether it
\* is a dict, its keys, and the values under next_node and triage_report
Event(type, node, name, is_dict, keys, nn, report) ==
    [event |-> type, node |-> node, name |-> name, is_dict |-> is_dict,
     keys |-> keys, next_node |-> nn, triage_report |-> report]

\* the events the engine emits when a node starts and when it returns `keys`
ChainStart(n) == Event("on_chain_start", n, n, FALSE, {}, "", NoReport)
ChainEnd(n, keys, nn, report) == Event("on_chain_end", n, n, TRUE, keys, nn, report)

\* an SSE frame; the timestamp of a thought frame is the wall clock and is
\* left out
Frame(event, node, st, subject, keys, routing, report) ==
    [event |-> event, node |-> node, status |-> st, subject |-> subject,
     output_keys |-> keys, routing |-> routing, report |-> report]

ThoughtFrame(node, st, subject, keys) ==
    Frame("thought", node, st, subject, keys, "", NoReport)
RoutingFrame(nn) == Frame("routing", "", "", "", {}, nn, NoReport)
ReportFrame(report) == Frame("triage_report", "", "", "", {}, "", report)

target_events == {"on_chain_start", "on_tool_start", "on_chain_end"}

\* truth value of output["triage_report"]: a report object is truthy, None is not
Truthy(report) == report.kind = "report"

\* the thought frame built for a target event that names a node
thought_data(ev) ==
    CASE ev.event = "on_chain_start" ->
            ThoughtFrame(ev.node, "chain_start",
                         IF ev.name # "" THEN ev.name ELSE ev.node, {})
      [] ev.event = "on_tool_start" ->
            ThoughtFrame(ev.node, "tool_start",
                         IF ev.name # "" THEN ev.name ELSE "unknown tool", {})
      [] OTHER ->
            ThoughtFrame(ev.node, "chain_end",
                         IF ev.name # "" THEN ev.name ELSE ev.node,
                         IF ev.is_dict THEN ev.keys ELSE {})

\* faulty variant: an event without a node context is not skipped
EventFrames_nonode(ev) ==
    IF ev.event \notin target_events THEN <<>>
    ELSE <<thought_data(ev)>>
         \o (IF ev.event = "on_chain_end" /\ ev.is_dict
             THEN (IF "triage_report" \in ev.keys /\ Truthy(ev.triage_report)
                   THEN <<ReportFrame(ev.triage_report)>> ELSE <<>>)
                  \o (IF "next_node" \in ev.keys
                      THEN <<RoutingFrame(ev.next_node)>> ELSE <<>>)
             ELSE <<>>)

\* faulty variant: the triage_report key alone triggers the report frame
EventFrames_anyreport(ev) ==
    IF ev.event \notin target_events THEN <<>>
    ELSE IF ev.node = "" THEN <<>>
    ELSE <<thought_data(ev)>>
         \o (IF ev.event = "on_chain_end" /\ ev.is_dict
             THEN (IF "triage_report" \in ev.keys
                   THEN <<ReportFrame(ev.triage_report)>> ELSE <<>>)
                  \o (IF "next_node" \in ev.keys
                      THEN <<RoutingFrame(ev.next_node)>> ELSE <<>>)
             ELSE <<>>)

\* streaming.stream_graph_events, one pass of its loop: the frames yielded
\* for one source event, in the order they are yielded
EventFrames(ev) ==
    IF ev.event \notin target_events THEN <<>>
    ELSE IF ev.node = "" THEN <<>>
    ELSE <<thought_data(ev)>>
         \o (IF ev.event = "on_chain_end" /\ ev.is_dict
             THEN (IF "triage_report" \in ev.keys /\ Truthy(ev.triage_report)
                   THEN <<ReportFrame(ev.triage_report)>> ELSE <<>>)
                  \o (IF "next_node" \in ev.keys
                      THEN <<RoutingFrame(ev.next_node)>> ELSE <<>>)
             ELSE <<>>)

\* faulty variant: the frames of an event are put in front of the stream
Emit_prepend(frames, ev) == EventFrames(ev) \o frames

\* the stream after the loop has handled one more event
Emit(frames, ev) == frames \o EventFrames(ev)

\* streaming.stream_graph_events over a whole sequence of source events
RECURSIVE stream_graph_events(_)
stream_graph_events(events) ==
    IF events = <<>> THEN <<>>
    ELSE Emit(stream_graph_events(SubSeq(events, 1, Len(events) - 1)),
              events[Len(events)])

\* main.stream_graph_events, one pass of its inner loop: the frames yielded
\* for the state update `keys` of node_name (one message per messages update)
UpdateFrames(node_name, keys, nn) ==
    (IF "messages" \in keys /\ node_name \in {"orchestrator", "network_specialist"}
     THEN <<ThoughtFrame(node_name, "message", node_name, {})>> ELSE <<>>)
    \o (IF "next_node" \in keys THEN <<RoutingFrame(nn)>> ELSE <<>>)

\* ------------------------------------------------- parts standing still ----
\* a JSON value of a report field: a string (as characters) or a list of strings
JStr(s) == [t |-> "str", s |-> s, l |-> <<>>]
JList(l) == [t |-> "list", s |-> <<>>, l |-> l]

\* TriageReport.dict(): the four fields, texts as characters
WireReport(root, details, action, failed) ==
    [root_cause |-> root, details |-> details, action |-> action,
     failed_agents |-> failed]

NoData == [ok |-> FALSE, event_type |-> <<>>, pairs |-> <<>>]

AppConfig(provider, model) ==
    [orchestrator_provider |-> provider, orchestrator_model |-> model]

ChatRequest(model_name, model_provider) ==
    [model_name |-> model_name, model_provider |-> model_provider]

GraphIdle ==
    /\ incident_data = [source_ip |-> Missing, destination_ip |-> Missing]
    /\ planner = [kind |-> "malformed", next_steps |-> <<>>, text |-> "", err |-> ""]
    /\ next_node = ""
    /\ decision = NoDecision
    /\ sub_agent_results = <<>>
    /\ triage_report = NoReport
    /\ active = {}
    /\ pc = [n \in Nodes |-> "idle"]
    /\ pending = <<>>
    /\ status = "done"
    /\ error = ""
    /\ runs = [n \in Nodes |-> 0]
    /\ plan_calls = 0
    /\ raised = {}
    /\ summary_kind = "none"
    /\ llm_failed_agents = <<>>
    /\ sse = <<>>
    /\ chat_frames = <<>>

ReducerIdle ==
    /\ m_left = NoneList
    /\ m_right = NoneList
    /\ m_third = NoneList
    /\ m_out = NoMerge

StreamIdle ==
    /\ s_events = <<>>
    /\ s_pos = 0
    /\ s_chunks = <<>>

CodecIdle ==
    /\ c_report = WireReport(<<>>, JStr(<<>>), <<>>, <<>>)
    /\ c_wire = <<>>
    /\ c_data = NoData
    /\ c_pc = "idle"

\* a thought event as the consumer decoded it: data.get defaults applied
ThoughtData(node, st, timestamp) ==
    [node |-> node, status |-> st, message |-> "m", timestamp |-> timestamp]

\* initialize_session_state on a fresh session: no tabs, no order
UiIdle ==
    /\ agent_tabs = [n \in {} |-> 0]
    /\ tab_order = <<>>
    /\ new_tab_created = FALSE
    /\ ui_history = <<>>
    /\ ui_delta = ""

NoPartition ==
    [done |-> FALSE, successful_results |-> <<>>, failed_results |-> <<>>,
     triage_report |-> NoReport]

TriageIdle ==
    /\ t_results = <<>>
    /\ t_answer = [kind |-> "raise", failed_agents |-> <<>>, err |-> "API Error"]
    /\ t_out = NoPartition

ChatIdle ==
    /\ request = ChatRequest(Missing, Missing)
    /\ default_config = AppConfig("openai", "default-model")
    /\ config = AppConfig("openai", "default-model")
    /\ llm_calls = <<>>
    /\ chat_pc = "idle"

\* ------------------------------------------------------------ actions ----
Init ==
    /\ incident_data \in [source_ip : IPValues, destination_ip : IPValues]
    /\ planner \in PlannerAnswers
    /\ next_node = ""
    /\ decision = NoDecision
    /\ sub_agent_results = <<>>
    /\ triage_report = NoReport
    /\ active = {"orchestrator"}
    /\ pc = [n \in Nodes |-> IF n = "orchestrator" THEN "scheduled" ELSE "idle"]
    /\ pending = <<>>
    /\ status = "running"
    /\ error = ""
    /\ runs = [n \in Nodes |-> 0]
    /\ plan_calls = 0
    /\ raised = {}
    /\ summary_kind = "none"
    /\ llm_failed_agents = <<>>
    /\ m_left = NoneList
    /\ m_right = NoneList
    /\ m_third = NoneList
    /\ m_out = NoMerge
    /\ sse = <<>>
    /\ chat_frames = <<>>
    /\ StreamIdle
    /\ CodecIdle
    /\ ChatIdle
    /\ TriageIdle
    /\ UiIdle

\* a scheduled node of the superstep starts
StartNode(n) ==
    /\ status = "running"
    /\ pc[n] = "scheduled"
    /\ pc' = [pc EXCEPT ![n] = "running"]
    /\ runs' = [runs EXCEPT ![n] = @ + 1]
    /\ UNCHANGED <<incident_data, next_node, decision, sub_agent_results,
                   triage_report, planner, active, pending, status, error,
                   plan_calls, raised, summary_kind>>
    /\ UNCHANGED <<llm_failed_agents, reducer_vars>>
    /\ sse' = Emit(sse, ChainStart(n))
    /\ UNCHANGED chat_frames
    /\ UNCHANGED <<stream_vars, codec_vars, chat_vars, triage_vars, ui_vars>>

\* the orchestrator node returns, its conditional edge is resolved
OrchestratorFinish ==
    /\ status = "running"
    /\ pc["orchestrator"] = "running"
    /\ LET out == orchestrator_node(incident_data, planner)
       IN  /\ plan_calls' = plan_calls + (IF out.called THEN 1 ELSE 0)
           /\ IF out.raises
              THEN /\ status' = "failed"
                   /\ error' = out.err
                   /\ pc' = [pc EXCEPT !["orchestrator"] = "idle"]
                   /\ UNCHANGED <<pending, sse, chat_frames>>
              ELSE /\ pending' = Append(pending,
                        Write("orchestrator", out.keys, out.next_node, out.decision,
                              <<>>, NoReport, Range(fan_out_router(out.decision))))
                   /\ pc' = [pc EXCEPT !["orchestrator"] = "done"]
                   /\ sse' = Emit(sse, ChainEnd("orchestrator", out.keys,
                                                out.next_node, NoReport))
                   /\ chat_frames' = chat_frames \o
                          UpdateFrames("orchestrator", out.keys, out.next_node)
                   /\ UNCHANGED <<status, error>>
    /\ UNCHANGED <<incident_data, next_node, decision, sub_agent_results,
                   triage_report, planner, active, runs, raised, summary_kind>>
    /\ UNCHANGED <<llm_failed_agents, reducer_vars>>
    /\ UNCHANGED <<stream_vars, codec_vars, chat_vars, triage_vars, ui_vars>>

\* faulty variant: the enrichment node hands back the addresses it looked up
WorkerFinish_enrich(w, e) ==
    /\ status = "running"
    /\ w \in Workers
    /\ pc[w] = "running"
    /\ pending' = Append(pending,
           IF w = "infoblox"
           THEN [Write(w, {"sub_agent_results", "incident_data"}, "", NoDecision,
                       wrapped_node(w, e), NoReport, EdgeTargets(w))
                   EXCEPT !.incident_data = [source_ip |-> "10.0.0.1",
                                             destination_ip |-> "10.0.0.1"]]
           ELSE Write(w, {"sub_agent_results"}, "", NoDecision, wrapped_node(w, e),
                      NoReport, EdgeTargets(w)))
    /\ pc' = [pc EXCEPT ![w] = "done"]
    /\ raised' = IF e = "" THEN raised ELSE raised \cup {w}
    /\ UNCHANGED <<incident_data, next_node, decision, sub_agent_results,
                   triage_report, planner, active, status, error, runs,
                   plan_calls, summary_kind>>
    /\ UNCHANGED <<llm_failed_agents, reducer_vars>>
    /\ sse' = Emit(sse, ChainEnd(w, {"sub_agent_results"}, "", NoReport))
    /\ chat_frames' = chat_frames \o UpdateFrames(w, {"sub_agent_results"}, "")
    /\ UNCHANGED <<stream_vars, codec_vars, chat_vars, triage_vars, ui_vars>>

\* a sub-agent node returns: its agent succeeded (e = "") or raised e
WorkerFinish(w, e) ==
    /\ status = "running"
    /\ w \in Workers
    /\ pc[w] = "running"
    /\ pending' = Append(pending,
           Write(w, {"sub_agent_results"}, "", NoDecision, wrapped_node(w, e),
                 NoReport, EdgeTargets(w)))
    /\ pc' = [pc EXCEPT ![w] = "done"]
    /\ raised' = IF e = "" THEN raised ELSE raised \cup {w}
    /\ UNCHANGED <<incident_data, next_node, decision, sub_agent_results,
                   triage_report, planner, active, status, error, runs,
                   plan_calls, summary_kind>>
    /\ UNCHANGED <<llm_failed_agents, reducer_vars>>
    /\ sse' = Emit(sse, ChainEnd(w, {"sub_agent_results"}, "", NoReport))
    /\ chat_frames' = chat_frames \o UpdateFrames(w, {"sub_agent_results"}, "")
    /\ UNCHANGED <<stream_vars, codec_vars, chat_vars, triage_vars, ui_vars>>

\* faulty variant: the triage node hands the results it read back in its update
TriageFinish_echo(answer) ==
    /\ status = "running"
    /\ pc["triage"] = "running"
    /\ pending' = Append(pending,
           Write("triage", {"triage_report", "sub_agent_results"}, "", NoDecision,
                 sub_agent_results,
                 triage_node(sub_agent_results, answer), EdgeTargets("triage")))
    /\ pc' = [pc EXCEPT !["triage"] = "done"]
    /\ summary_kind' = answer.kind
    /\ llm_failed_agents' = answer.failed_agents
    /\ UNCHANGED <<incident_data, next_node, decision, sub_agent_results,
                   triage_report, planner, active, status, error, runs,
                   plan_calls, raised, reducer_vars>>
    /\ sse' = Emit(sse, ChainEnd("triage", {"triage_report", "sub_agent_results"}, "",
                                 triage_node(sub_agent_results, answer)))
    /\ chat_frames' = chat_frames \o
           UpdateFrames("triage", {"triage_report", "sub_agent_results"}, "")
    /\ UNCHANGED <<stream_vars, codec_vars, chat_vars, triage_vars, ui_vars>>

\* the triage node returns
TriageFinish(answer) ==
    /\ status = "running"
    /\ pc["triage"] = "running"
    /\ pending' = Append(pending,
           Write("triage", {"triage_report"}, "", NoDecision, <<>>,
                 triage_node(sub_agent_results, answer), EdgeTargets("triage")))
    /\ pc' = [pc EXCEPT !["triage"] = "done"]
    /\ summary_kind' = answer.kind
    /\ UNCHANGED <<incident_data, next_node, decision, sub_agent_results,
                   triage_report, planner, active, status, error, runs,
                   plan_calls, raised>>
    /\ llm_failed_agents' = answer.failed_agents
    /\ UNCHANGED reducer_vars
    /\ sse' = Emit(sse, ChainEnd("triage", {"triage_report"}, "",
                                 triage_node(sub_agent_results, answer)))
    /\ chat_frames' = chat_frames \o UpdateFrames("triage", {"triage_report"}, "")
    /\ UNCHANGED <<stream_vars, codec_vars, chat_vars, triage_vars, ui_vars>>

\* the superstep ends: the writes are applied, the next nodes scheduled
EndSuperstep ==
    /\ status = "running"
    /\ active # {}
    /\ BarrierReached
    /\ pending # <<>>
    /\ decision' = IF HasKey(pending, "decision")
                   THEN LastWith(pending, "decision").decision ELSE decision
    /\ next_node' = IF HasKey(pending, "next_node")
                    THEN LastWith(pending, "next_node").next_node ELSE next_node
    /\ triage_report' = IF HasKey(pending, "triage_report")
                        THEN LastWith(pending, "triage_report").triage_report
                        ELSE triage_report
    /\ sub_agent_results' = MergeWrites(sub_agent_results, pending)
    /\ active' = NextNodes(pending)
    /\ pc' = [n \in Nodes |-> IF n \in NextNodes(pending) THEN "scheduled" ELSE "idle"]
    /\ pending' = <<>>
    /\ status' = IF NextNodes(pending) = {} THEN "done" ELSE "running"
    /\ incident_data' = IF HasKey(pending, "incident_data")
                        THEN LastWith(pending, "incident_data").incident_data
                        ELSE incident_data
    /\ UNCHANGED <<planner, error, runs, plan_calls, raised, summary_kind>>
    /\ UNCHANGED <<llm_failed_agents, reducer_vars>>
    /\ UNCHANGED <<sse, chat_frames>>
    /\ UNCHANGED <<stream_vars, codec_vars, chat_vars, triage_vars, ui_vars>>

Next ==
    \/ \E n \in Nodes : StartNode(n)
    \/ OrchestratorFinish
    \/ \E w \in Workers, e \in ErrTexts \cup {""} : WorkerFinish(w, e)
    \/ \E answer \in SummarizerAnswers : TriageFinish(answer)
    \/ EndSuperstep

Spec == Init /\ [][Next]_vars

\* ------------------------------------------- the reducer on its own ----
\* results the merged lists are built from; two of them share agent_name
MergeResults ==
    {SubAgentResult("aci", "SUCCESS", ""), SubAgentResult("aci", "FAILURE", "API Error"),
     SubAgentResult("palo_alto", "SUCCESS", "")}

MergeInputs == {NoneList} \cup {SomeList(l) : l \in SeqsUpTo(MergeResults, MaxList)}

MergeInit ==
    /\ incident_data = [source_ip |-> Missing, destination_ip |-> Missing]
    /\ planner = [kind |-> "malformed", next_steps |-> <<>>, text |-> "", err |-> ""]
    /\ next_node = ""
    /\ decision = NoDecision
    /\ sub_agent_results = <<>>
    /\ triage_report = NoReport
    /\ active = {}
    /\ pc = [n \in Nodes |-> "idle"]
    /\ pending = <<>>
    /\ status = "done"
    /\ error = ""
    /\ runs = [n \in Nodes |-> 0]
    /\ plan_calls = 0
    /\ raised = {}
    /\ summary_kind = "none"
    /\ llm_failed_agents = <<>>
    /\ m_left \in MergeInputs
    /\ m_right \in MergeInputs
    /\ m_third \in MergeInputs
    /\ m_out = NoMerge
    /\ sse = <<>>
    /\ chat_frames = <<>>
    /\ StreamIdle
    /\ CodecIdle
    /\ ChatIdle
    /\ TriageIdle
    /\ UiIdle

\* merge_sub_agent_results is applied to the branch values
ApplyMerge ==
    /\ ~m_out.done
    /\ m_out' = [done |-> TRUE,
                 lr   |-> merge_sub_agent_results(m_left, m_right),
                 rl   |-> merge_sub_agent_results(m_right, m_left),
                 lr_t |-> merge_sub_agent_results(
                              SomeList(merge_sub_agent_results(m_left, m_right)), m_third),
                 l_rt |-> merge_sub_agent_results(
                              m_left, SomeList(merge_sub_agent_results(m_right, m_third)))]
    /\ UNCHANGED <<incident_data, next_node, decision, sub_agent_results,
                   triage_report, planner, active, pc, pending, status, error,
                   runs, plan_calls, raised, summary_kind, llm_failed_agents,
                   m_left, m_right, m_third>>
    /\ UNCHANGED <<sse, chat_frames>>
    /\ UNCHANGED <<stream_vars, codec_vars, chat_vars, triage_vars, ui_vars>>

MergeNext == ApplyMerge

MergeSpec == MergeInit /\ [][MergeNext]_vars

\* ------------------------------------------------------ the wire format ----
\* characters that matter to the framing: the quote, the backslash, the
\* newline, the colon and the blank, next to an ordinary letter
QUOTE == "\""
BSLASH == "\\"
LF == "\n"
TextChars == {"a", ":", " ", QUOTE, BSLASH, LF}
Texts == SeqsUpTo(TextChars, MaxText)

k_root_cause == <<"r", "o", "o", "t", "_", "c", "a", "u", "s", "e">>
k_details == <<"d", "e", "t", "a", "i", "l", "s">>
k_action == <<"a", "c", "t", "i", "o", "n">>
k_failed_agents == <<"f", "a", "i", "l", "e", "d", "_", "a", "g", "e", "n", "t", "s">>

\* json.dumps of a string: the quote, the backslash and the newline escaped
EscapeChar(c) ==
    CASE c = QUOTE  -> <<BSLASH, QUOTE>>
      [] c = BSLASH -> <<BSLASH, BSLASH>>
      [] c = LF     -> <<BSLASH, "n">>
      [] OTHER      -> <<c>>

RECURSIVE Escape(_)
Escape(t) == IF t = <<>> THEN <<>> ELSE EscapeChar(Head(t)) \o Escape(Tail(t))

DumpStr(t) == <<QUOTE>> \o Escape(t) \o <<QUOTE>>

RECURSIVE DumpItems(_)
DumpItems(l) ==
    IF l = <<>> THEN <<>>
    ELSE IF Len(l) = 1 THEN DumpStr(l[1])
    ELSE DumpStr(l[1]) \o <<",", " ">> \o DumpItems(Tail(l))

DumpValue(v) ==
    IF v.t = "str" THEN DumpStr(v.s) ELSE <<"[">> \o DumpItems(v.l) \o <<"]">>

\* json.dumps(report.dict())
json_dumps(report) ==
    <<"{">>
    \o DumpStr(k_root_cause) \o <<":", " ">> \o DumpStr(report.root_cause) \o <<",", " ">>
    \o DumpStr(k_details) \o <<":", " ">> \o DumpValue(report.details) \o <<",", " ">>
    \o DumpStr(k_action) \o <<":", " ">> \o DumpStr(report.action) \o <<",", " ">>
    \o DumpStr(k_failed_agents) \o <<":", " ">>
    \o DumpValue(JList(report.failed_agents))
    \o <<"}">>

\* f"event: triage_report\ndata: {report_json}\n\n"
report_frame(report) ==
    <<"e", "v", "e", "n", "t", ":", " ", "t", "r", "i", "a", "g", "e", "_", "r", "e", "p", "o", "r", "t">>
    \o <<LF>> \o <<"d", "a", "t", "a", ":", " ">> \o json_dumps(report) \o <<LF, LF>>

\* response.iter_lines(): the text between newlines, in order
LineStarts(w) == {1} \cup {i + 1 : i \in {j \in 1..Len(w) : w[j] = LF}}
LineEnd(w, from) ==
    IF \E j \in from..Len(w) : w[j] = LF
    THEN (CHOOSE j \in from..Len(w) :
              w[j] = LF /\ \A k \in from..(j - 1) : w[k] # LF) - 1
    ELSE Len(w)
SplitLines(w) ==
    LET starts == {i \in LineStarts(w) : i <= Len(w)}
        nth(n) == CHOOSE i \in starts : Cardinality({k \in starts : k < i}) = n - 1
    IN  [n \in 1..Cardinality(starts) |-> SubSeq(w, nth(n), LineEnd(w, nth(n)))]

StartsWith(line, prefix) ==
    Len(line) >= Len(prefix) /\ SubSeq(line, 1, Len(prefix)) = prefix

IsSpace(c) == c = " " \/ c = LF

RECURSIVE Strip(_)
Strip(t) ==
    IF t = <<>> THEN t
    ELSE IF IsSpace(Head(t)) THEN Strip(Tail(t))
    ELSE IF IsSpace(t[Len(t)]) THEN Strip(SubSeq(t, 1, Len(t) - 1))
    ELSE t

Colons(line) == {i \in 1..Len(line) : line[i] = ":"}
FirstColon(line) == CHOOSE i \in Colons(line) : \A j \in Colons(line) : i <= j

\* faulty variant: split(":")[1], the text between the first two colons
AfterColon_splitall(line) ==
    LET rest == SubSeq(line, FirstColon(line) + 1, Len(line))
    IN  Strip(IF Colons(rest) = {} THEN rest
              ELSE SubSeq(rest, 1, FirstColon(rest) - 1))

\* line.split(":", 1)[1].strip()
AfterColon(line) == Strip(SubSeq(line, FirstColon(line) + 1, Len(line)))

\* json.loads: the result of a parsing step, the value read and where to go on
Parsed(ok, val, next) == [ok |-> ok, val |-> val, next |-> next]
ParseError == Parsed(FALSE, JStr(<<>>), 0)

RECURSIVE SkipWs(_, _)
SkipWs(t, i) == IF i <= Len(t) /\ IsSpace(t[i]) THEN SkipWs(t, i + 1) ELSE i

\* the characters of a string up to its closing quote, escapes undone
RECURSIVE ScanStr(_, _, _)
ScanStr(t, i, acc) ==
    IF i > Len(t) THEN ParseError
    ELSE IF t[i] = QUOTE THEN Parsed(TRUE, JStr(acc), i + 1)
    ELSE IF t[i] = LF THEN ParseError
    ELSE IF t[i] = BSLASH
    THEN IF i + 1 > Len(t) THEN ParseError
         ELSE IF t[i + 1] = QUOTE THEN ScanStr(t, i + 2, Append(acc, QUOTE))
         ELSE IF t[i + 1] = BSLASH THEN ScanStr(t, i + 2, Append(acc, BSLASH))
         ELSE IF t[i + 1] = "n" THEN ScanStr(t, i + 2, Append(acc, LF))
         ELSE ParseError
    ELSE ScanStr(t, i + 1, Append(acc, t[i]))

ParseStr(t, i) ==
    IF i <= Len(t) /\ t[i] = QUOTE THEN ScanStr(t, i + 1, <<>>) ELSE ParseError

\* the items of a list of strings, from the position after "[" or ","
RECURSIVE ScanList(_, _, _)
ScanList(t, i, acc) ==
    LET item == ParseStr(t, SkipWs(t, i))
        j == SkipWs(t, item.next)
    IN  IF ~item.ok \/ j > Len(t) THEN ParseError
        ELSE IF t[j] = "]" THEN Parsed(TRUE, JList(Append(acc, item.val.s)), j + 1)
        ELSE IF t[j] = "," THEN ScanList(t, j + 1, Append(acc, item.val.s))
        ELSE ParseError

ParseValue(t, i) ==
    IF i > Len(t) THEN ParseError
    ELSE IF t[i] = QUOTE THEN ParseStr(t, i)
    ELSE IF t[i] = "["
    THEN (IF SkipWs(t, i + 1) <= Len(t) /\ t[SkipWs(t, i + 1)] = "]"
          THEN Parsed(TRUE, JList(<<>>), SkipWs(t, i + 1) + 1)
          ELSE ScanList(t, i + 1, <<>>))
    ELSE ParseError

\* the members of an object, from the position after "{" or ","
RECURSIVE ScanObject(_, _, _)
ScanObject(t, i, acc) ==
    LET key == ParseStr(t, SkipWs(t, i))
        c == SkipWs(t, key.next)
        val == ParseValue(t, SkipWs(t, c + 1))
        j == SkipWs(t, val.next)
    IN  IF ~key.ok \/ c > Len(t) THEN [ok |-> FALSE, pairs |-> <<>>, next |-> 0]
        ELSE IF t[c] # ":" \/ ~val.ok \/ j > Len(t)
        THEN [ok |-> FALSE, pairs |-> <<>>, next |-> 0]
        ELSE IF t[j] = "}"
        THEN [ok |-> TRUE, pairs |-> Append(acc, [k |-> key.val.s, v |-> val.val]),
              next |-> j + 1]
        ELSE IF t[j] = ","
        THEN ScanObject(t, j + 1, Append(acc, [k |-> key.val.s, v |-> val.val]))
        ELSE [ok |-> FALSE, pairs |-> <<>>, next |-> 0]

\* json.loads(data_str) of an object text; ok is FALSE for JSONDecodeError
json_loads(t) ==
    LET i == SkipWs(t, 1)
        obj == IF i <= Len(t) /\ t[i] = "{"
               THEN ScanObject(t, i + 1, <<>>)
               ELSE [ok |-> FALSE, pairs |-> <<>>, next |-> 0]
    IN  IF obj.ok /\ SkipWs(t, obj.next) > Len(t)
        THEN [ok |-> TRUE, pairs |-> obj.pairs]
        ELSE [ok |-> FALSE, pairs |-> <<>>]

\* the consumer's loop over the lines of one frame: the event type of its
\* event line and the dict decoded from its data line
consumer_decode(wire) ==
    LET lines == SelectSeq(SplitLines(wire), LAMBDA l : l # <<>>)
        ev == SelectSeq(lines, LAMBDA l : StartsWith(l, <<"e", "v", "e", "n", "t", ":">>))
        da == SelectSeq(lines,
                  LAMBDA l : ~StartsWith(l, <<"e", "v", "e", "n", "t", ":">>) /\ StartsWith(l, <<"d", "a", "t", "a", ":">>))
    IN  IF ev = <<>> \/ da = <<>> THEN NoData
        ELSE LET data == json_loads(AfterColon(da[Len(da)]))
             IN  [ok |-> data.ok, event_type |-> AfterColon(ev[Len(ev)]),
                  pairs |-> data.pairs]

\* data.get(key, default)
Get(pairs, key, default) ==
    LET hits == {i \in 1..Len(pairs) : pairs[i].k = key}
    IN  IF hits = {} THEN default
        ELSE pairs[CHOOSE i \in hits : \A j \in hits : j <= i].v

\* reports put on the wire: every text up to MaxText as root_cause, details
\* a string or a list of strings
CodecReports ==
    {WireReport(root, details, action, failed) :
        root \in Texts,
        details \in {JStr(<<":", QUOTE>>), JStr(<<>>), JList(<<>>),
                     JList(<<<<"a", LF>>, <<BSLASH>>>>)},
        action \in {<<"a">>, <<" ", ":", " ">>},
        failed \in {<<>>, <<<<"a", "c", "i">>, <<"p", "a", "l", "o", "_", "a", "l", "t", "o">>>>}}

CodecInit ==
    /\ GraphIdle
    /\ ReducerIdle
    /\ StreamIdle
    /\ ChatIdle
    /\ TriageIdle
    /\ UiIdle
    /\ c_report \in CodecReports
    /\ c_wire = <<>>
    /\ c_data = NoData
    /\ c_pc = "start"

\* the adapter writes the triage_report frame
Encode ==
    /\ c_pc = "start"
    /\ c_wire' = report_frame(c_report)
    /\ c_pc' = "encoded"
    /\ UNCHANGED <<ui_vars, triage_vars, graph_vars, reducer_vars, stream_vars, chat_vars, c_report, c_data>>

\* the consumer reads the frame
Decode ==
    /\ c_pc = "encoded"
    /\ c_data' = consumer_decode(c_wire)
    /\ c_pc' = "decoded"
    /\ UNCHANGED <<ui_vars, triage_vars, graph_vars, reducer_vars, stream_vars, chat_vars, c_report, c_wire>>

CodecNext == Encode \/ Decode

CodecSpec == CodecInit /\ [][CodecNext]_vars

\* ------------------------------------------ the SSE adapter on its own ----
SampleReport == TriageReport("llm root cause", "llm details", "llm action", <<"aci">>)

\* source events handed to the adapter: target and other types, with and
\* without a node in the metadata, on_chain_end with the outputs that matter
StreamEvents ==
    {Event("on_chain_start", n, n, FALSE, {}, "", NoReport) : n \in {"", "triage"}}
    \cup {Event("on_tool_start", n, t, FALSE, {}, "", NoReport) :
             n \in {"", "triage"}, t \in {"", "get_ip_info"}}
    \cup {Event("on_chat_model_stream", n, n, FALSE, {}, "", NoReport) :
             n \in {"", "triage"}}
    \cup {Event("on_chain_end", n, n, FALSE, {}, "", NoReport) : n \in {"", "triage"}}
    \cup {Event("on_chain_end", n, n, TRUE, k, IF "next_node" \in k THEN "aci" ELSE "", r) :
             n \in {"", "triage"},
             k \in {{}, {"next_node"}},
             r \in {NoReport}}
    \cup {Event("on_chain_end", n, n, TRUE, k \cup {"triage_report"},
                IF "next_node" \in k THEN "aci" ELSE "", r) :
             n \in {"", "triage"},
             k \in {{}, {"next_node"}},
             r \in {NoReport, SampleReport}}

StreamInit ==
    /\ GraphIdle
    /\ ReducerIdle
    /\ CodecIdle
    /\ ChatIdle
    /\ TriageIdle
    /\ UiIdle
    /\ s_events \in SeqsUpTo(StreamEvents, MaxEvents)
    /\ s_pos = 0
    /\ s_chunks = <<>>

\* the loop of streaming.stream_graph_events takes the next source event
StreamStep ==
    /\ s_pos < Len(s_events)
    /\ s_pos' = s_pos + 1
    /\ s_chunks' = Append(s_chunks, EventFrames(s_events[s_pos + 1]))
    /\ UNCHANGED <<ui_vars, triage_vars, graph_vars, reducer_vars, codec_vars, chat_vars, s_events>>

StreamNext == StreamStep

StreamSpec == StreamInit /\ [][StreamNext]_vars

\* ---------------------------------------------------- the /chat handler ----
\* ChatRequest.model_name / model_provider: absent (None), empty, or a value
RequestModels == {Missing, "", "gpt-4"}
RequestProviders == {Missing, "", "Gemini", "azure"}

\* what get_config returns
DefaultConfigs ==
    {AppConfig(p, m) : p \in {"openai", "google"},
                       m \in {"default-model", "gemini-pro-mock"}}

\* faulty variant: the provider override is dropped
chat_config_modelonly(req, cfg) ==
    AppConfig(cfg.orchestrator_provider,
              IF ~Falsy(req.model_name) THEN req.model_name
              ELSE cfg.orchestrator_model)

\* faulty variant: the handler reads the addresses out of the message
chat_inputs_parsed == [source_ip |-> "10.0.0.1", destination_ip |-> "10.0.0.1"]

\* chat(): inputs = {"messages": [...]}, incident_data is not among the keys,
\* so state.get("incident_data", {}) has neither address
chat_inputs == [source_ip |-> Missing, destination_ip |-> Missing]

\* chat(): config.model_copy(update=updated_kwargs), an override taken when
\* the request field is truthy
chat_config(req, cfg) ==
    AppConfig(IF ~Falsy(req.model_provider) THEN req.model_provider
              ELSE cfg.orchestrator_provider,
              IF ~Falsy(req.model_name) THEN req.model_name
              ELSE cfg.orchestrator_model)

\* provider.lower()
Lower(provider) == IF provider = "Gemini" THEN "gemini" ELSE provider

\* get_llm(provider, model_name): the chat model built, or ValueError
get_llm(provider, model_name) ==
    IF Lower(provider) = "openai"
    THEN [raises |-> FALSE, cls |-> "ChatOpenAI", built_model |-> model_name]
    ELSE IF Lower(provider) \in {"google", "gemini"}
    THEN [raises |-> FALSE, cls |-> "ChatGoogleGenerativeAI", built_model |-> model_name]
    ELSE [raises |-> TRUE, cls |-> "", built_model |-> ""]

\* the order in which build_graph creates the nodes
BuildOrder == <<"orchestrator", "infoblox", "aci", "palo_alto", "triage">>

\* the get_llm call of the factory of node n
LLMCall(n, cfg) ==
    [node |-> n, provider |-> cfg.orchestrator_provider,
     model |-> cfg.orchestrator_model,
     llm |-> get_llm(cfg.orchestrator_provider, cfg.orchestrator_model)]

ChatInit ==
    /\ GraphIdle
    /\ ReducerIdle
    /\ StreamIdle
    /\ CodecIdle
    /\ TriageIdle
    /\ UiIdle
    /\ request \in {ChatRequest(m, p) : m \in RequestModels, p \in RequestProviders}
    /\ default_config \in DefaultConfigs
    /\ config = default_config
    /\ llm_calls = <<>>
    /\ chat_pc = "received"

\* chat(): the overrides of the request are applied to a copy of the config
ApplyOverrides ==
    /\ chat_pc = "received"
    /\ config' = chat_config(request, default_config)
    /\ chat_pc' = "building"
    /\ UNCHANGED <<ui_vars, triage_vars, graph_vars, reducer_vars, stream_vars, codec_vars,
                   request, default_config, llm_calls>>

\* build_graph(config): the factory of the next node builds its LLM
BuildNode ==
    /\ chat_pc = "building"
    /\ Len(llm_calls) < Len(BuildOrder)
    /\ LET call == LLMCall(BuildOrder[Len(llm_calls) + 1], config)
       IN  /\ llm_calls' = Append(llm_calls, call)
           /\ chat_pc' = IF call.llm.raises THEN "failed"
                         ELSE IF Len(llm_calls) + 1 = Len(BuildOrder) THEN "built"
                         ELSE "building"
    /\ UNCHANGED <<ui_vars, triage_vars, graph_vars, reducer_vars, stream_vars, codec_vars,
                   request, default_config, config>>

ChatNext == ApplyOverrides \/ BuildNode

ChatSpec == ChatInit /\ [][ChatNext]_vars

\* ------------------------------------------ the triage node on its own ----
\* results of any AgentStatus, the ones no sub-agent node produces included
AgentStatus == {"SUCCESS", "FAILURE", "UNKNOWN"}

TriageInputs ==
    SeqsUpTo({SubAgentResult(n, st, IF st = "FAILURE" THEN "API Error" ELSE "") :
                 n \in Diagnostic, st \in AgentStatus}, MaxList)

TriageInit ==
    /\ GraphIdle
    /\ ReducerIdle
    /\ StreamIdle
    /\ CodecIdle
    /\ ChatIdle
    /\ t_results \in TriageInputs
    /\ t_answer \in SummarizerAnswers
    /\ t_out = NoPartition
    /\ UiIdle

\* triage_node runs on the results
RunTriage ==
    /\ ~t_out.done
    /\ t_out' = [done |-> TRUE,
                 successful_results |-> successful_results(t_results),
                 failed_results |-> failed_results(t_results),
                 triage_report |-> triage_node(t_results, t_answer)]
    /\ UNCHANGED <<ui_vars, graph_vars, reducer_vars, stream_vars, codec_vars,
                   chat_vars, t_results, t_answer>>

TriageNext == RunTriage

TriageSpec == TriageInit /\ [][TriageNext]_vars

\* ------------------------------------------------- the frontend's tabs ----
\* node.lower(), for the node names the frontend is handed
LowerNode(node) == IF node = "Orchestrator" THEN "orchestrator" ELSE node

\* format_timestamp: HH:MM:SS of an ISO timestamp, "" for none or a bad one
format_timestamp(timestamp_str) ==
    IF timestamp_str = "" THEN ""
    ELSE IF timestamp_str = "2024-01-01T10:00:00Z" THEN "10:00:00"
    ELSE ""

status_icon(st) ==
    CASE st = "chain_start" -> "start-icon"
      [] st = "tool_start"  -> "tool-icon"
      [] st = "chain_end"   -> "end-icon"
      [] OTHER              -> "thought-icon"

is_subagent(node) == LowerNode(node) # "orchestrator" /\ node # "Unknown"

NewTab == [created |-> TRUE, logs |-> <<>>, status |-> "running",
           has_new_activity |-> TRUE]

log_entry_data(data) ==
    [timestamp |-> format_timestamp(data.timestamp), status |-> data.status,
     icon |-> status_icon(data.status), message |-> data.message]

\* state["agent_tabs"] with the tab of node set to tab
WithTab(tabs, node, tab) ==
    [n \in DOMAIN tabs \cup {node} |-> IF n = node THEN tab ELSE tabs[n]]

\* the thought events handed to the frontend: lifecycle, tool and other
\* statuses for the orchestrator (in both spellings), a missing node and two
\* sub-agents; timestamps valid, missing and malformed
ThoughtEvents ==
    {ThoughtData(n, st, "2024-01-01T10:00:00Z") :
        n \in {"orchestrator", "Unknown", "aci", "palo_alto"},
        st \in {"chain_start", "tool_start", "chain_end", ""}}
    \cup {ThoughtData("Orchestrator", "chain_start", "2024-01-01T10:00:00Z"),
          ThoughtData("aci", "chain_start", ""),
          ThoughtData("aci", "chain_end", "not a time")}

UiInit ==
    /\ GraphIdle
    /\ ReducerIdle
    /\ StreamIdle
    /\ CodecIdle
    /\ ChatIdle
    /\ TriageIdle
    /\ UiIdle

\* faulty variant: the node is appended to tab_order on every event
handle_thought_event_always(data) ==
    /\ Len(ui_history) < MaxThoughts
    /\ ui_history' = Append(ui_history, data)
    /\ IF is_subagent(data.node)
       THEN LET isnew == data.node \notin DOMAIN agent_tabs
                tab == IF isnew THEN NewTab ELSE agent_tabs[data.node]
                st == IF data.status = "chain_start" THEN "running"
                      ELSE IF data.status = "chain_end" THEN "complete"
                      ELSE tab.status
            IN  /\ agent_tabs' = WithTab(agent_tabs, data.node,
                       [tab EXCEPT !.status = st,
                                   !.logs = Append(@, log_entry_data(data)),
                                   !.has_new_activity = TRUE])
                /\ tab_order' = Append(tab_order, data.node)
                /\ new_tab_created' = TRUE
                /\ ui_delta' = IF data.status = "chain_start" THEN "calling"
                               ELSE IF data.status = "chain_end" THEN "complete"
                               ELSE ""
       ELSE /\ ui_delta' = "orchestrator"
            /\ UNCHANGED <<agent_tabs, tab_order, new_tab_created>>
    /\ UNCHANGED <<triage_vars, graph_vars, reducer_vars, stream_vars, codec_vars,
                   chat_vars>>

\* faulty variant: a tool_start event marks the tab complete
handle_thought_event_toolends(data) ==
    /\ Len(ui_history) < MaxThoughts
    /\ ui_history' = Append(ui_history, data)
    /\ IF is_subagent(data.node)
       THEN LET isnew == data.node \notin DOMAIN agent_tabs
                tab == IF isnew THEN NewTab ELSE agent_tabs[data.node]
                st == IF data.status = "chain_start" THEN "running"
                      ELSE IF data.status \in {"chain_end", "tool_start"} THEN "complete"
                      ELSE tab.status
            IN  /\ agent_tabs' = WithTab(agent_tabs, data.node,
                       [tab EXCEPT !.status = st,
                                   !.logs = Append(@, log_entry_data(data)),
                                   !.has_new_activity = TRUE])
                /\ tab_order' = IF isnew /\ data.node \notin Range(tab_order)
                                THEN Append(tab_order, data.node) ELSE tab_order
                /\ new_tab_created' = IF isnew /\ data.node \notin Range(tab_order)
                                      THEN TRUE ELSE new_tab_created
                /\ ui_delta' = IF data.status = "chain_start" THEN "calling"
                               ELSE IF data.status = "chain_end" THEN "complete"
                               ELSE ""
       ELSE /\ ui_delta' = "orchestrator"
            /\ UNCHANGED <<agent_tabs, tab_order, new_tab_created>>
    /\ UNCHANGED <<triage_vars, graph_vars, reducer_vars, stream_vars, codec_vars,
                   chat_vars>>

\* handle_thought_event(data, state)
handle_thought_event(data) ==
    /\ Len(ui_history) < MaxThoughts
    /\ ui_history' = Append(ui_history, data)
    /\ IF is_subagent(data.node)
       THEN LET isnew == data.node \notin DOMAIN agent_tabs
                tab == IF isnew THEN NewTab ELSE agent_tabs[data.node]
                st == IF data.status = "chain_start" THEN "running"
                      ELSE IF data.status = "chain_end" THEN "complete"
                      ELSE tab.status
            IN  /\ agent_tabs' = WithTab(agent_tabs, data.node,
                       [tab EXCEPT !.status = st,
                                   !.logs = Append(@, log_entry_data(data)),
                                   !.has_new_activity = TRUE])
                /\ tab_order' = IF isnew /\ data.node \notin Range(tab_order)
                                THEN Append(tab_order, data.node) ELSE tab_order
                /\ new_tab_created' = IF isnew /\ data.node \notin Range(tab_order)
                                      THEN TRUE ELSE new_tab_created
                /\ ui_delta' = IF data.status = "chain_start" THEN "calling"
                               ELSE IF data.status = "chain_end" THEN "complete"
                               ELSE ""
       ELSE /\ ui_delta' = "orchestrator"
            /\ UNCHANGED <<agent_tabs, tab_order, new_tab_created>>
    /\ UNCHANGED <<triage_vars, graph_vars, reducer_vars, stream_vars, codec_vars,
                   chat_vars>>

UiNext == \E data \in ThoughtEvents : handle_thought_event(data)

UiSpec == UiInit /\ [][UiNext]_vars

TypeOK ==
    /\ active \subseteq Nodes
    /\ status \in {"running", "done", "failed"}
    /\ \A n \in Nodes : pc[n] \in {"idle", "scheduled", "running", "done"}
    /\ plan_calls \in 0..1

\* ------------------------------------------------------------- claims ----
\* the state lacks source_ip or destination_ip (absent or empty)
LacksIp ==
    \/ incident_data.source_ip \in {Missing, ""}
    \/ incident_data.destination_ip \in {Missing, ""}

\* the decision the orchestrator node has returned in this superstep
Returned == pending[1].decision

OrchestratorReturned == pc["orchestrator"] = "done" /\ Len(pending) = 1

\* nodes launched so far in this run
Launched == {w \in Workers : runs[w] >= 1}

CountOf(w) == Cardinality({i \in 1..Len(sub_agent_results) :
                              sub_agent_results[i].agent_name = w})

\* C1: with source_ip or destination_ip lacking, the orchestrator node
\* returns next_steps = ["infoblox"] and the planning LLM is never invoked,
\* whatever answer the planner holds ready.
C1_MissingIpsRouteToInfoblox ==
    LacksIp =>
        /\ plan_calls = 0
        /\ status # "failed"
        /\ OrchestratorReturned => Returned.next_steps = <<"infoblox">>
        /\ decision.kind # "none" => decision.next_steps = <<"infoblox">>

C1_Witness ==
    /\ LacksIp
    /\ OrchestratorReturned
    /\ planner.kind = "decision"
    /\ planner.next_steps = <<"aci", "palo_alto">>
    /\ Returned.next_steps = <<"infoblox">>

\* C2: with both IPs present and the planning call raising, the orchestrator
\* node raises nothing and returns a fallback decision whose next_steps is
\* non-empty and contains aci and palo_alto, with the error text in reasoning.
C2_PlannerFailureFallback ==
    (~LacksIp /\ planner.kind = "raise") =>
        /\ status # "failed"
        /\ OrchestratorReturned =>
              /\ Returned.kind = "decision"
              /\ Returned.next_steps # <<>>
              /\ Diagnostic \subseteq Range(Returned.next_steps)
              /\ Returned.err = planner.err
              /\ Diagnostic \subseteq pending[1].targets
        /\ decision.kind # "none" =>
              /\ Diagnostic \subseteq Range(decision.next_steps)
              /\ decision.err = planner.err

C2_Witness ==
    /\ ~LacksIp
    /\ planner.kind = "raise"
    /\ plan_calls = 1
    /\ OrchestratorReturned
    /\ Returned.err = "API Error"

\* C3 (as claimed): once the decision routes to infoblox, the orchestrator
\* node has run a second time before the triage node runs.
C3_RouterReentered ==
    ("infoblox" \in Range(decision.next_steps) /\ runs["triage"] >= 1)
        => runs["orchestrator"] >= 2

\* C3 (amended): once the decision routes to infoblox, infoblox runs once and
\* its result is merged, then triage runs; the orchestrator node is never
\* invoked a second time.
C3_EnrichmentThenTriage ==
    /\ runs["orchestrator"] <= 1
    /\ ("infoblox" \in Range(decision.next_steps) /\ pc["triage"] # "idle") =>
          /\ runs["infoblox"] = 1
          /\ CountOf("infoblox") = 1
    /\ ("infoblox" \in Range(decision.next_steps) /\ status = "done") =>
          runs["triage"] = 1

C3_Witness ==
    /\ status = "done"
    /\ decision.next_steps = <<"infoblox">>
    /\ runs["infoblox"] = 1
    /\ runs["triage"] = 1
    /\ runs["orchestrator"] = 1

\* C4: the triage node is scheduled only after every node launched in the
\* fan-out has completed and its result is in sub_agent_results, and it runs
\* once per run, not once per branch.
C4_TriageAfterFanIn ==
    /\ runs["triage"] <= 1
    /\ pc["triage"] # "idle" =>
          /\ Launched # {}
          /\ \A w \in Launched : pc[w] = "idle" /\ CountOf(w) = 1
          /\ Len(sub_agent_results) = Cardinality(Launched)

C4_Witness ==
    /\ pc["triage"] = "running"
    /\ Launched = {"aci", "palo_alto"}
    /\ Len(sub_agent_results) = 2

FailureCount == Cardinality({i \in 1..Len(sub_agent_results) :
                                sub_agent_results[i].status = "FAILURE"})

\* C5 (as claimed): when exactly one of the launched workers raised, the run
\* finishes with one result per launched worker, exactly one of them FAILURE
\* and carrying that worker's name, and the final triage_report is a report
\* whose failed_agents is exactly that worker's name.
C5_OneFailureIsolated ==
    (status = "done" /\ Cardinality(raised) = 1) =>
        /\ Len(sub_agent_results) = Cardinality(Launched)
        /\ FailureCount = 1
        /\ \A i \in 1..Len(sub_agent_results) :
              sub_agent_results[i].status = "FAILURE"
                  <=> sub_agent_results[i].agent_name \in raised
        /\ triage_report.kind = "report"
        /\ Range(triage_report.failed_agents) = raised
        /\ Len(triage_report.failed_agents) = 1

\* the part of C5 that does not depend on the summarization call: the
\* failure is isolated in the results, and triage reports it whenever the
\* summarization call returns a report or raises
C5_FailureIsolatedInResults ==
    (status = "done" /\ Cardinality(raised) = 1) =>
        /\ Len(sub_agent_results) = Cardinality(Launched)
        /\ FailureCount = 1
        /\ summary_kind \in {"report", "raise"} =>
              /\ triage_report.kind = "report"
              /\ Range(triage_report.failed_agents) = raised
              /\ Len(triage_report.failed_agents) = 1

\* C6: a fan-out that launched N workers ends with exactly one result per
\* launched worker in sub_agent_results (length N, none dropped, none
\* duplicated), whatever the order in which the workers finished.
C6_OneResultPerWorker ==
    (pc["triage"] # "idle" \/ status = "done") =>
        /\ Len(sub_agent_results) = Cardinality(Launched)
        /\ \A w \in Workers : CountOf(w) = (IF w \in Launched THEN 1 ELSE 0)
        /\ decision.kind = "decision" =>
              Launched = Range(fan_out_router(decision)) \ {END}

C6_Witness ==
    /\ status = "done"
    /\ Len(sub_agent_results) = 3
    /\ sub_agent_results[1].agent_name = "palo_alto"
    /\ sub_agent_results[3].agent_name = "infoblox"

\* C7: within one run every node executes at most once, except that the
\* orchestrator may execute a second time after enrichment has run.
C7_AtMostOnce ==
    \A n \in Nodes :
        runs[n] <= (IF n = "orchestrator" /\ runs["infoblox"] >= 1 THEN 2 ELSE 1)

C7_Witness ==
    /\ status = "done"
    /\ \A n \in Nodes : runs[n] = 1

\* the fixed table of the fan-out resolution
StepTable(name) ==
    CASE name = "infoblox"   -> {"infoblox"}
      [] name = "aci"        -> {"aci"}
      [] name = "palo_alto"  -> {"palo_alto"}
      [] name = "sub_agents" -> {"aci", "palo_alto"}
      [] OTHER               -> {}

Resolved(d) == UNION {StepTable(d.next_steps[i]) : i \in 1..Len(d.next_steps)}

NothingStarted == \A n \in Workers \cup {"triage"} : runs[n] = 0

\* C8: fan_out_router resolves next_steps by the fixed table (a worker name
\* to itself, sub_agents to aci and palo_alto, anything else to nothing), as
\* a set union in which each node is named and launched once.
C8_FanOutTable ==
    decision.kind = "decision" =>
        LET nodes == fan_out_router(decision)
        IN  /\ Resolved(decision) # {} =>
                  /\ Range(nodes) = Resolved(decision)
                  /\ Len(nodes) = Cardinality(Resolved(decision))
            /\ Resolved(decision) = {} => nodes = <<END>>
            /\ NothingStarted => active = Resolved(decision)
            /\ Launched \subseteq Resolved(decision)
            /\ \A w \in Workers : runs[w] <= 1
            /\ status # "failed"

C8_Witness ==
    /\ decision.next_steps = <<"sub_agents", "aci">>
    /\ active = {"aci", "palo_alto"}
    /\ pc["aci"] = "running"
    /\ pc["palo_alto"] = "running"

\* C9: when every name in next_steps is unrecognised, the run ends at once:
\* no worker runs, triage is not invoked, triage_report stays unset.
C9_EmptyFanOutEnds ==
    (decision.kind = "decision" /\ Resolved(decision) = {}) =>
        /\ status = "done"
        /\ active = {}
        /\ \A n \in Workers \cup {"triage"} : runs[n] = 0 /\ pc[n] = "idle"
        /\ sub_agent_results = <<>>
        /\ triage_report = NoReport

C9_Witness ==
    /\ status = "done"
    /\ decision.next_steps = <<"firewall">>
    /\ runs["orchestrator"] = 1
    /\ triage_report.kind = "unset"

TriageReturned == pc["triage"] = "done" /\ Len(pending) = 1

RECURSIVE FailureNames(_)
\* the agent names of the FAILURE results, in list order
FailureNames(rs) ==
    IF rs = <<>> THEN <<>>
    ELSE (IF Head(rs).status = "FAILURE" THEN <<Head(rs).agent_name>> ELSE <<>>)
         \o FailureNames(Tail(rs))

\* C11: whenever the summarization call returns a report, the report triage
\* writes has failed_agents equal to the names of the FAILURE results, in
\* sub_agent_results order, whatever failed_agents the LLM returned.
C11_FailedAgentsOverwritten ==
    summary_kind = "report" =>
        /\ TriageReturned =>
              /\ pending[1].triage_report.kind = "report"
              /\ pending[1].triage_report.failed_agents = FailureNames(sub_agent_results)
        /\ triage_report.kind # "unset" =>
              /\ triage_report.kind = "report"
              /\ triage_report.failed_agents = FailureNames(sub_agent_results)

C11_Witness ==
    /\ summary_kind = "report"
    /\ llm_failed_agents = <<"aci">>
    /\ triage_report.kind = "report"
    /\ triage_report.failed_agents = <<"palo_alto", "infoblox">>

\* C12: if the summarization call raises, triage_node propagates nothing and
\* writes the fallback report: root_cause 'Analysis Failed', the error text in
\* details, action 'Manual investigation required', failed_agents computed
\* from sub_agent_results.
C12_SummarizationFallback ==
    summary_kind = "raise" =>
        /\ status # "failed"
        /\ TriageReturned =>
              pending[1].triage_report =
                  [kind |-> "report", root_cause |-> "Analysis Failed",
                   details |-> "API Error",
                   action |-> "Manual investigation required",
                   failed_agents |-> FailureNames(sub_agent_results)]
        /\ triage_report.kind # "unset" =>
              /\ triage_report.kind = "report"
              /\ triage_report.root_cause = "Analysis Failed"
              /\ triage_report.details \in ErrTexts
              /\ triage_report.action = "Manual investigation required"
              /\ triage_report.failed_agents = FailureNames(sub_agent_results)

C12_Witness ==
    /\ summary_kind = "raise"
    /\ status = "done"
    /\ triage_report.root_cause = "Analysis Failed"
    /\ triage_report.failed_agents = <<"aci">>
    /\ Len(sub_agent_results) = 2

\* C13: with both IPs present and the planner returning a decision with
\* non-empty next_steps, the decision the orchestrator node writes is the
\* planner's decision, unmodified.
C13_PlannerDecisionUnmodified ==
    (~LacksIp /\ planner.kind = "decision" /\ planner.next_steps # <<>>) =>
        /\ status # "failed"
        /\ OrchestratorReturned =>
              /\ Returned = planner
              /\ "decision" \in pending[1].keys
        /\ decision.kind # "none" => decision = planner

C13_Witness ==
    /\ ~LacksIp
    /\ planner.kind = "decision"
    /\ planner.next_steps = <<"palo_alto", "firewall">>
    /\ plan_calls = 1
    /\ decision = planner

\* C14: a decision never leaves the orchestrator node with empty next_steps;
\* when the planner returns empty next_steps the run fans out to aci and
\* palo_alto and then runs triage.
C14_EmptyStepsRunAll ==
    /\ OrchestratorReturned => Returned.next_steps # <<>>
    /\ decision.kind # "none" => decision.next_steps # <<>>
    /\ (~LacksIp /\ planner.kind = "decision" /\ planner.next_steps = <<>>) =>
          /\ status # "failed"
          /\ OrchestratorReturned => pending[1].targets = Diagnostic
          /\ (decision.kind # "none" /\ NothingStarted) => active = Diagnostic
          /\ Launched \subseteq Diagnostic
          /\ pc["triage"] # "idle" => Launched = Diagnostic
          /\ status = "done" => runs["triage"] = 1 /\ Launched = Diagnostic

C14_Witness ==
    /\ ~LacksIp
    /\ planner.kind = "decision"
    /\ planner.next_steps = <<>>
    /\ status = "done"
    /\ Launched = Diagnostic
    /\ runs["triage"] = 1

\* C15 (as claimed): when the planning call returns a value that is not a
\* decision, the orchestrator node lets no exception escape and returns the
\* fixed fallback decision.
C15_MalformedPlanFallsBack ==
    (~LacksIp /\ planner.kind = "malformed") =>
        /\ status # "failed"
        /\ OrchestratorReturned =>
              /\ Returned.kind = "decision"
              /\ Returned.next_steps = <<"aci", "palo_alto">>

\* C16 (as claimed): when the summarization call returns a value that is not
\* a report, triage_node writes the fallback report, so triage_report is a
\* report carrying the computed failed_agents.
C16_MalformedSummaryFallsBack ==
    summary_kind = "malformed" =>
        /\ TriageReturned =>
              /\ pending[1].triage_report.kind = "report"
              /\ pending[1].triage_report.root_cause = "Analysis Failed"
              /\ pending[1].triage_report.failed_agents = FailureNames(sub_agent_results)
        /\ triage_report.kind # "unset" =>
              /\ triage_report.kind = "report"
              /\ triage_report.failed_agents = FailureNames(sub_agent_results)

\* the list an argument of the reducer stands for, None counting as empty
Items(x) == IF x.none THEN <<>> ELSE x.items

Occurrences(x, l) == Cardinality({i \in 1..Len(l) : l[i] = x})

\* C17: merge_sub_agent_results(left, right) is left followed by right: every
\* element of both inputs at its place, nothing removed or deduplicated by
\* agent_name, a None side counting as empty.
C17_MergeIsConcatenation ==
    m_out.done =>
        LET l == Items(m_left)
            r == Items(m_right)
        IN  /\ Len(m_out.lr) = Len(l) + Len(r)
            /\ \A i \in 1..Len(l) : m_out.lr[i] = l[i]
            /\ \A j \in 1..Len(r) : m_out.lr[Len(l) + j] = r[j]

C17_Witness ==
    /\ m_out.done
    /\ m_left.none
    /\ Len(m_right.items) = 2
    /\ m_right.items[1].agent_name = m_right.items[2].agent_name
    /\ m_out.lr = m_right.items
    /\ m_out.rl = m_right.items

\* C18: merging branch results is associative, and commutative as to
\* membership: in either order the merged list holds every result of both
\* branches with the number of occurrences it had in them.
C18_MergeAssociativeCommutative ==
    m_out.done =>
        /\ m_out.lr_t = m_out.l_rt
        /\ \A x \in MergeResults :
              /\ Occurrences(x, m_out.lr) = Occurrences(x, m_out.rl)
              /\ Occurrences(x, m_out.lr) =
                     Occurrences(x, Items(m_left)) + Occurrences(x, Items(m_right))
              /\ Occurrences(x, m_out.lr_t) =
                     Occurrences(x, Items(m_left)) + Occurrences(x, Items(m_right))
                     + Occurrences(x, Items(m_third))

C18_Witness ==
    /\ m_out.done
    /\ Len(Items(m_left)) = 1
    /\ Len(Items(m_right)) = 2
    /\ Len(Items(m_third)) = 1
    /\ m_out.lr # m_out.rl
    /\ Len(m_out.lr_t) = 4
    /\ m_left.items[1].agent_name = m_right.items[1].agent_name

\* the node category that owns a state field
Owner(key) ==
    CASE key \in {"decision", "next_node"} -> {"orchestrator"}
      [] key = "sub_agent_results"         -> Workers
      [] key = "triage_report"             -> {"triage"}
      [] OTHER                             -> {}

WritersOf(key) == {pending[i].node : i \in {j \in 1..Len(pending) : key \in pending[j].keys}}

C19_FrameStep ==
    /\ \A i \in 1..Len(pending') : \A k \in pending'[i].keys :
          pending'[i].node \in Owner(k)
    /\ decision' # decision =>
          /\ WritersOf("decision") = {"orchestrator"}
          /\ decision' = pending[1].decision
    /\ sub_agent_results' # sub_agent_results =>
          /\ WritersOf("sub_agent_results") # {}
          /\ WritersOf("sub_agent_results") \subseteq Workers
          /\ Len(sub_agent_results') =
                 Len(sub_agent_results) + Cardinality(WritersOf("sub_agent_results"))
          /\ \A i \in 1..Len(sub_agent_results) :
                 sub_agent_results'[i] = sub_agent_results[i]
    /\ triage_report' # triage_report =>
          /\ WritersOf("triage_report") = {"triage"}
          /\ triage_report = NoReport
    /\ incident_data' = incident_data

\* C19: each state field is written by one node category only: decision by the
\* orchestrator node, sub_agent_results by sub-agent nodes through the reducer,
\* triage_report by the triage node and at most once per run; a node's update
\* names no field it does not own, so every other field stays as it was.
C19_SingleWriterPerField == [][C19_FrameStep]_vars

C19_Witness ==
    /\ status = "done"
    /\ decision.kind = "decision"
    /\ Len(sub_agent_results) = 2
    /\ triage_report.kind = "report"
    /\ runs["triage"] = 1

\* a run started the way the /chat handler starts it: inputs without incident_data
ChatRun == incident_data = chat_inputs

FramesOf(frames, event) == {i \in 1..Len(frames) : frames[i].event = event}

\* C21 (as claimed): when the triage node of a /chat run has produced a
\* report, the stream /chat returns contains a triage_report frame carrying it.
C21_ChatStreamsTriageReport ==
    (ChatRun /\ status = "done" /\ triage_report.kind = "report") =>
        \E i \in FramesOf(chat_frames, "triage_report") :
            chat_frames[i].report = triage_report

\* C22 (as claimed): the stream /chat returns contains thought frames, one of
\* them at least for the orchestrator node, in every run.
C22_ChatStreamsThoughts ==
    (ChatRun /\ status = "done") =>
        \E i \in FramesOf(chat_frames, "thought") :
            chat_frames[i].node = "orchestrator"

\* C23 (as claimed): once the orchestrator node has returned a decision, the
\* event stream holds a routing frame naming a node the decision chose, on
\* the deterministic path and on the LLM-planned path alike.
C23_RoutingFrameOnEveryDecision ==
    OrchestratorReturned =>
        \E i \in FramesOf(sse, "routing") :
            sse[i].routing \in Range(Returned.next_steps)

\* positions of the lifecycle frames of node n in the emitted stream
StartsOf(n) == {i \in FramesOf(sse, "thought") :
                   sse[i].node = n /\ sse[i].status = "chain_start"}
EndsOf(n) == {i \in FramesOf(sse, "thought") :
                 sse[i].node = n /\ sse[i].status = "chain_end"}

\* C26: in the emitted stream the start frame of a node precedes the end
\* frame of the same node (and every end frame has such a start frame), also
\* when the frames of concurrent branches interleave.
C26_StartBeforeEnd ==
    \A n \in Nodes :
        /\ \A i \in StartsOf(n), j \in EndsOf(n) : i < j
        /\ EndsOf(n) # {} => StartsOf(n) # {}

C26_Witness ==
    \E a \in StartsOf("aci"), b \in StartsOf("palo_alto"),
       c \in EndsOf("aci"), d \in EndsOf("palo_alto") :
        a < b /\ b < d /\ d < c

\* the source event is one the adapter reports: a target type, a node named
Reported(ev) == ev.event \in target_events /\ ev.node # ""

\* the output of the source event contains a non-empty triage_report
CarriesReport(ev) ==
    /\ ev.event = "on_chain_end"
    /\ ev.is_dict
    /\ "triage_report" \in ev.keys
    /\ ev.triage_report.kind = "report"

\* the stream yielded for the events consumed so far
Yielded == stream_graph_events(SubSeq(s_events, 1, s_pos))

\* C24: for each source event of type on_chain_start, on_tool_start or
\* on_chain_end whose metadata names a node, exactly one thought frame is
\* emitted (for that node, with the status of the event type); for any other
\* event no frame at all is emitted.
C24_OneThoughtPerReportedEvent ==
    /\ Len(s_chunks) = s_pos
    /\ \A i \in 1..s_pos :
          IF Reported(s_events[i])
          THEN /\ Cardinality(FramesOf(s_chunks[i], "thought")) = 1
               /\ s_chunks[i][1].event = "thought"
               /\ s_chunks[i][1].node = s_events[i].node
               /\ s_chunks[i][1].status =
                     (CASE s_events[i].event = "on_chain_start" -> "chain_start"
                        [] s_events[i].event = "on_tool_start"  -> "tool_start"
                        [] OTHER                                 -> "chain_end")
          ELSE s_chunks[i] = <<>>
    /\ Cardinality(FramesOf(Yielded, "thought")) =
          Cardinality({i \in 1..s_pos : Reported(s_events[i])})

C24_Witness ==
    /\ s_pos = 2
    /\ s_events[1].event = "on_chat_model_stream"
    /\ s_events[1].node = "triage"
    /\ s_chunks[1] = <<>>
    /\ s_events[2].event = "on_tool_start"
    /\ s_events[2].node = "triage"
    /\ Len(s_chunks[2]) = 1

\* C25 (as claimed): for each on_chain_end event whose output contains a
\* non-empty triage_report exactly one triage_report frame is emitted,
\* directly after the thought frame of that event, and none for other events.
C25_ReportFramePerReportOutput ==
    \A i \in 1..s_pos :
        IF CarriesReport(s_events[i])
        THEN /\ Cardinality(FramesOf(s_chunks[i], "triage_report")) = 1
             /\ Len(s_chunks[i]) >= 2
             /\ s_chunks[i][1].event = "thought"
             /\ s_chunks[i][2].event = "triage_report"
        ELSE FramesOf(s_chunks[i], "triage_report") = {}

\* C25 (amended): the same for each on_chain_end event whose metadata names a
\* node and whose output contains a non-empty triage_report; the frame
\* carries that report and follows the chain_end thought frame of the event
\* directly in the stream; no other event yields a triage_report frame.
C25_ReportFramePerNodeReportOutput ==
    /\ \A i \in 1..s_pos :
          IF CarriesReport(s_events[i]) /\ s_events[i].node # ""
          THEN /\ Cardinality(FramesOf(s_chunks[i], "triage_report")) = 1
               /\ Len(s_chunks[i]) >= 2
               /\ s_chunks[i][1].event = "thought"
               /\ s_chunks[i][1].node = s_events[i].node
               /\ s_chunks[i][2].event = "triage_report"
               /\ s_chunks[i][2].report = s_events[i].triage_report
          ELSE FramesOf(s_chunks[i], "triage_report") = {}
    /\ \A k \in FramesOf(Yielded, "triage_report") :
          /\ k > 1
          /\ Yielded[k - 1].event = "thought"
          /\ Yielded[k - 1].status = "chain_end"
    /\ Cardinality(FramesOf(Yielded, "triage_report")) =
          Cardinality({i \in 1..s_pos :
                          CarriesReport(s_events[i]) /\ s_events[i].node # ""})

C25_Witness ==
    /\ s_pos = 2
    /\ CarriesReport(s_events[1]) /\ s_events[1].node = ""
    /\ s_chunks[1] = <<>>
    /\ CarriesReport(s_events[2]) /\ s_events[2].node = "triage"
    /\ "next_node" \in s_events[2].keys
    /\ Len(s_chunks[2]) = 3
    /\ s_chunks[2][2].report = SampleReport

\* a field of the decoded dict; a field that is not there reads as null
Field(key) == Get(c_data.pairs, key, [t |-> "null", s |-> <<>>, l |-> <<>>])

\* C27: a report encoded into a triage_report frame and decoded from the
\* frame's data line by the consumer comes out with the same root_cause,
\* details, action and failed_agents.
C27_ReportRoundTrip ==
    c_pc = "decoded" =>
        /\ c_data.ok
        /\ c_data.event_type = <<"t", "r", "i", "a", "g", "e", "_", "r", "e", "p", "o", "r", "t">>
        /\ Field(k_root_cause) = JStr(c_report.root_cause)
        /\ Field(k_details) = c_report.details
        /\ Field(k_action) = JStr(c_report.action)
        /\ Field(k_failed_agents) = JList(c_report.failed_agents)

C27_Witness ==
    /\ c_pc = "decoded"
    /\ c_report.root_cause = <<LF, QUOTE>>
    /\ c_report.details.t = "list"
    /\ Len(c_report.details.l) = 2
    /\ c_report.action = <<" ", ":", " ">>
    /\ Len(c_report.failed_agents) = 2
    /\ Field(k_root_cause).s = <<LF, QUOTE>>
    /\ Len(Field(k_failed_agents).l) = 2

\* a request field is given: present and not empty
Given(v) == v # Missing /\ v # ""

EffectiveProvider ==
    IF Given(request.model_provider) THEN request.model_provider
    ELSE default_config.orchestrator_provider

EffectiveModel ==
    IF Given(request.model_name) THEN request.model_name
    ELSE default_config.orchestrator_model

\* C28: for a /chat request the LLM of every node is asked of get_llm with
\* the effective provider and model (the request's where given, the
\* configured default otherwise) and, when built, is of that provider's
\* class and of that model; a graph that is built has the LLM of all five nodes.
C28_EffectiveModelEverywhere ==
    /\ \A i \in 1..Len(llm_calls) :
          /\ llm_calls[i].node = BuildOrder[i]
          /\ llm_calls[i].provider = EffectiveProvider
          /\ llm_calls[i].model = EffectiveModel
          /\ ~llm_calls[i].llm.raises =>
                /\ llm_calls[i].llm.built_model = EffectiveModel
                /\ llm_calls[i].llm.cls =
                      (IF EffectiveProvider = "openai" THEN "ChatOpenAI"
                       ELSE "ChatGoogleGenerativeAI")
    /\ chat_pc = "built" => {llm_calls[i].node : i \in 1..Len(llm_calls)} = Nodes

C28_Witness ==
    /\ chat_pc = "built"
    /\ request = ChatRequest(Missing, "Gemini")
    /\ default_config = AppConfig("openai", "default-model")
    /\ \A n \in Nodes : \E i \in 1..Len(llm_calls) :
          /\ llm_calls[i].node = n
          /\ llm_calls[i].provider = "Gemini"
          /\ llm_calls[i].model = "default-model"
          /\ llm_calls[i].llm.cls = "ChatGoogleGenerativeAI"

\* next_steps names some identifier more than once
HasDuplicate(d) ==
    \E i, j \in 1..Len(d.next_steps) : i < j /\ d.next_steps[i] = d.next_steps[j]

RECURSIVE NamedOnce(_)
\* the list with each identifier kept where it is named first
NamedOnce(steps) ==
    IF steps = <<>> THEN <<>>
    ELSE LET front == NamedOnce(SubSeq(steps, 1, Len(steps) - 1))
         IN  IF steps[Len(steps)] \in Range(front) THEN front
             ELSE Append(front, steps[Len(steps)])

\* C29 (as claimed): a decision whose next_steps names an identifier twice
\* is resolved as the catch-all: aci and palo_alto both run.
C29_DuplicateRunsAll ==
    (decision.kind = "decision" /\ HasDuplicate(decision)) =>
        /\ Range(fan_out_router(decision)) = Diagnostic
        /\ NothingStarted => active = Diagnostic
        /\ status = "done" => Launched = Diagnostic

\* C29 (amended): a decision whose next_steps names an identifier twice is
\* resolved as if each identifier were named once: the nodes that run are
\* those of the fan-out table for the distinct names.
C29_DuplicateNamedOnce ==
    (decision.kind = "decision" /\ HasDuplicate(decision)) =>
        LET once == [decision EXCEPT !.next_steps = NamedOnce(decision.next_steps)]
        IN  /\ fan_out_router(decision) = fan_out_router(once)
            /\ Range(fan_out_router(decision)) \ {END} = Resolved(once)
            /\ NothingStarted => active = Resolved(once)
            /\ Launched \subseteq Resolved(once)
            /\ status = "done" => Launched = Resolved(once)
            /\ status # "failed"

C29_Witness ==
    /\ decision.next_steps = <<"aci", "aci">>
    /\ status = "done"
    /\ Launched = {"aci"}
    /\ runs["palo_alto"] = 0
    /\ runs["triage"] = 1

\* what the orchestrator node would return had the planner's reasoning been r
Twin(r) == orchestrator_node(incident_data, [planner EXCEPT !.text = r])

\* the nodes the router names for the decision of the state with reasoning r
TwinTargets(r) == Range(fan_out_router([decision EXCEPT !.text = r])) \ {END}

\* C30: the reasoning text has no influence on control flow: a run that
\* differs from this one in the reasoning only (same next_steps, same
\* incident_data) returns the same update keys and next_steps from the
\* orchestrator, fails where this one fails, launches the same nodes and
\* ends with triage run or not run as in this one.
C30_ReasoningIrrelevant ==
    \A r \in ReasonTexts \cup {""} :
        /\ status = "failed" => Twin(r).raises
        /\ OrchestratorReturned =>
              /\ ~Twin(r).raises
              /\ Twin(r).keys = pending[1].keys
              /\ Twin(r).decision.next_steps = Returned.next_steps
              /\ Range(fan_out_router(Twin(r).decision)) = pending[1].targets
              /\ Range(fan_out_router([Returned EXCEPT !.text = r])) = pending[1].targets
        /\ decision.kind = "decision" =>
              /\ NothingStarted => active = TwinTargets(r)
              /\ Launched \subseteq TwinTargets(r)
              /\ status = "done" =>
                    /\ Launched = TwinTargets(r)
                    /\ runs["triage"] = (IF TwinTargets(r) = {} THEN 0 ELSE 1)

C30_Witness ==
    /\ status = "done"
    /\ ~LacksIp
    /\ planner.kind = "decision"
    /\ decision.text = "r2"
    /\ decision.next_steps = <<"aci">>
    /\ Launched = {"aci"}
    /\ TwinTargets("r1") = {"aci"}
    /\ runs["triage"] = 1

\* the lifecycle frames of the run so far, as <<node, status>> pairs
LifecycleOfThoughts ==
    LET th == SelectSeq(sse, LAMBDA f : f.event = "thought")
    IN  [i \in 1..Len(th) |-> <<th[i].node, th[i].status>>]

\* C31: a run started with source_ip or destination_ip missing executes the
\* orchestrator, then infoblox, then triage, each once and one after the
\* other, no other node, and ends with a decision of next_steps ["infoblox"]
\* and sub_agent_results holding the infoblox result alone.
C31_MissingIpsRunShape ==
    LacksIp =>
        /\ status # "failed"
        /\ runs["aci"] = 0 /\ runs["palo_alto"] = 0
        /\ \E k \in 0..6 :
              LifecycleOfThoughts =
                  SubSeq(<<<<"orchestrator", "chain_start">>, <<"orchestrator", "chain_end">>,
                           <<"infoblox", "chain_start">>, <<"infoblox", "chain_end">>,
                           <<"triage", "chain_start">>, <<"triage", "chain_end">>>>, 1, k)
        /\ status = "done" =>
              /\ Len(LifecycleOfThoughts) = 6
              /\ decision.kind = "decision"
              /\ decision.next_steps = <<"infoblox">>
              /\ Len(sub_agent_results) = 1
              /\ sub_agent_results[1].agent_name = "infoblox"
              /\ runs["orchestrator"] = 1 /\ runs["infoblox"] = 1 /\ runs["triage"] = 1

C31_Witness ==
    /\ incident_data = [source_ip |-> "10.0.0.1", destination_ip |-> ""]
    /\ status = "done"
    /\ Len(sub_agent_results) = 1
    /\ sub_agent_results[1] = SubAgentResult("infoblox", "FAILURE", "API Error")
    /\ runs["triage"] = 1

\* C32 (as claimed): with both IPs present the update the orchestrator node
\* returns sets next_node to "sub_agents", when the planner answers and when
\* the fallback decision is used after a planner error.
C32_NextNodeSubAgents ==
    (~LacksIp /\ OrchestratorReturned /\ planner.kind \in {"decision", "raise"}) =>
        /\ "next_node" \in pending[1].keys
        /\ pending[1].next_node = "sub_agents"

C33_Step ==
    /\ incident_data' = incident_data
    /\ \A i \in 1..Len(pending') : "incident_data" \notin pending'[i].keys

\* C33: no node writes incident_data: no state update names it and no step
\* of a run changes it, so it keeps its initial value throughout (infoblox in
\* particular adds no source_ip or destination_ip).
C33_IncidentDataReadOnly == [][C33_Step]_vars

C33_Witness ==
    /\ status = "done"
    /\ incident_data = [source_ip |-> Missing, destination_ip |-> "10.0.0.1"]
    /\ runs["infoblox"] = 1
    /\ Len(sub_agent_results) = 1
    /\ sub_agent_results[1].status = "SUCCESS"

\* C34: a run started by POST /chat has no incident_data and takes the
\* deterministic branch: the planning LLM is never invoked, aci and
\* palo_alto never run, and orchestrator, infoblox and triage are the nodes
\* that execute, whatever the planner would have answered.
C34_ChatRunsDeterministicBranch ==
    ChatRun =>
        /\ plan_calls = 0
        /\ status # "failed"
        /\ runs["aci"] = 0 /\ runs["palo_alto"] = 0
        /\ active \subseteq {"orchestrator", "infoblox", "triage"}
        /\ \A i \in 1..Len(pending) : pending[i].targets \cap Diagnostic = {}
        /\ status = "done" =>
              \A n \in {"orchestrator", "infoblox", "triage"} : runs[n] = 1

C34_Witness ==
    /\ ChatRun
    /\ planner.kind = "decision"
    /\ planner.next_steps = <<"aci", "palo_alto">>
    /\ status = "done"
    /\ runs["infoblox"] = 1
    /\ runs["triage"] = 1
    /\ Len(chat_frames) = 1

\* infoblox is in one fan-out with a diagnostic worker
EnrichmentWithDiagnostics == "infoblox" \in active /\ active \cap Diagnostic # {}

\* C35 (as claimed): infoblox never runs in the same fan-out as aci or
\* palo_alto, for every decision the planner can return.
C35_EnrichmentOwnPhase == ~EnrichmentWithDiagnostics

\* C35 (amended): infoblox runs in the same fan-out as a diagnostic worker
\* exactly when the planner itself returns a decision that names infoblox
\* together with aci, palo_alto or sub_agents; on the deterministic path and
\* after the planner fallback it never does.
C35_EnrichmentSharedOnlyWhenPlanned ==
    /\ EnrichmentWithDiagnostics =>
          /\ ~LacksIp
          /\ planner.kind = "decision"
          /\ "infoblox" \in Range(planner.next_steps)
          /\ Range(planner.next_steps) \cap {"aci", "palo_alto", "sub_agents"} # {}
          /\ active = Resolved(planner)
    /\ (/\ ~LacksIp
        /\ planner.kind = "decision"
        /\ "infoblox" \in Range(planner.next_steps)
        /\ Range(planner.next_steps) \cap {"aci", "palo_alto", "sub_agents"} # {}
        /\ decision.kind = "decision"
        /\ NothingStarted) => EnrichmentWithDiagnostics
    /\ (LacksIp \/ planner.kind = "raise") =>
          \A i \in 1..Len(pending) :
              ~("infoblox" \in pending[i].targets /\ pending[i].targets \cap Diagnostic # {})

C35_Witness ==
    /\ planner.next_steps = <<"infoblox", "aci">>
    /\ active = {"infoblox", "aci"}
    /\ pc["infoblox"] = "running"
    /\ pc["aci"] = "running"

RECURSIVE Keep(_, _)
\* the results of rs whose status is in sts, in list order
Keep(rs, sts) ==
    IF rs = <<>> THEN <<>>
    ELSE (IF Head(rs).status \in sts THEN <<Head(rs)>> ELSE <<>>) \o Keep(Tail(rs), sts)

\* C36: the triage partition puts every FAILURE result on the failure side
\* and every other result (SUCCESS or UNKNOWN) on the success side, so the
\* failed_agents of the report it writes are the names of the FAILURE
\* results and an UNKNOWN result contributes none.
C36_UnknownIsNotFailure ==
    t_out.done =>
        /\ t_out.failed_results = Keep(t_results, {"FAILURE"})
        /\ t_out.successful_results = Keep(t_results, {"SUCCESS", "UNKNOWN"})
        /\ t_out.triage_report.kind = "report" =>
              /\ t_out.triage_report.failed_agents = FailureNames(t_results)
              /\ Len(t_out.triage_report.failed_agents) =
                    Cardinality({i \in 1..Len(t_results) : t_results[i].status = "FAILURE"})

C36_Witness ==
    /\ t_out.done
    /\ t_results = <<SubAgentResult("aci", "UNKNOWN", ""),
                     SubAgentResult("palo_alto", "FAILURE", "API Error")>>
    /\ t_out.triage_report.failed_agents = <<"palo_alto">>
    /\ Len(t_out.successful_results) = 1

\* node phases entered so far: the orchestrator, one fan-out, triage
Phases ==
    (IF runs["orchestrator"] > 0 THEN 1 ELSE 0)
    + (IF \E w \in Workers : runs[w] > 0 THEN 1 ELSE 0)
    + (IF runs["triage"] > 0 THEN 1 ELSE 0)

\* C37 (as claimed): with every LLM and worker call returning, a run ends at
\* END, never by an exception, within three node phases in which no node
\* runs twice; a run with nothing left to do has reached END.
C37_ReachesEndInThreePhases ==
    /\ status # "failed"
    /\ Phases <= 3
    /\ \A n \in Nodes : runs[n] <= 1
    /\ (active = {} /\ pending = <<>>) => status = "done"

\* a node the claims about the tabs call a sub-agent: named, and not the
\* orchestrator in any spelling
SubAgentNode(node) == node \notin {"orchestrator", "Orchestrator", "Unknown"}

RECURSIVE FirstAppearances(_, _)
\* the sub-agent nodes of the events h, each once, in order of first appearance
FirstAppearances(h, seen) ==
    IF h = <<>> THEN <<>>
    ELSE IF SubAgentNode(Head(h).node) /\ Head(h).node \notin seen
         THEN <<Head(h).node>> \o FirstAppearances(Tail(h), seen \cup {Head(h).node})
         ELSE FirstAppearances(Tail(h), seen)

\* C38: after any sequence of thought events from an initialised session,
\* tab_order lists each sub-agent node that has appeared exactly once, in
\* order of first appearance, has the same members as agent_tabs, and never
\* contains the orchestrator.
C38_TabOrderIsFirstAppearance ==
    /\ tab_order = FirstAppearances(ui_history, {})
    /\ \A i, j \in 1..Len(tab_order) : i # j => tab_order[i] # tab_order[j]
    /\ Range(tab_order) = DOMAIN agent_tabs
    /\ \A i \in 1..Len(tab_order) :
          tab_order[i] \notin {"orchestrator", "Orchestrator"}

\* two sub-agents have tabs, the first of them was heard from again after the
\* second appeared, and an orchestrator event was handled
C38_Witness ==
    /\ tab_order = <<"palo_alto", "aci">>
    /\ Len(ui_history) = MaxThoughts
    /\ ui_history[Len(ui_history)].node = "palo_alto"
    /\ \E i \in 1..Len(ui_history) : ~SubAgentNode(ui_history[i].node)

\* what one handled event did to the tabs
C39_Step ==
    (ui_history' # ui_history /\ SubAgentNode(ui_history'[Len(ui_history')].node)) =>
        LET data == ui_history'[Len(ui_history')]
            node == data.node
            had == node \in DOMAIN agent_tabs
            old_logs == IF had THEN agent_tabs[node].logs ELSE <<>>
        IN  /\ node \in DOMAIN agent_tabs'
            /\ data.status = "chain_start" => agent_tabs'[node].status = "running"
            /\ data.status = "chain_end" => agent_tabs'[node].status = "complete"
            /\ (data.status = "tool_start" /\ had) =>
                  agent_tabs'[node].status = agent_tabs[node].status
            /\ (data.status = "tool_start" /\ ~had) =>
                  agent_tabs'[node].status = "running"
            /\ Len(agent_tabs'[node].logs) = Len(old_logs) + 1
            /\ SubSeq(agent_tabs'[node].logs, 1, Len(old_logs)) = old_logs
            /\ agent_tabs'[node].logs[Len(old_logs) + 1].status = data.status
            /\ DOMAIN agent_tabs' = DOMAIN agent_tabs \cup {node}
            /\ \A n \in DOMAIN agent_tabs \ {node} :
                  agent_tabs'[n].logs = agent_tabs[n].logs

\* C39: a sub-agent tab's status is "running" after a chain_start event for
\* that node and "complete" after a chain_end event for it, a tool_start event
\* leaves the status unchanged (the status a new tab is created with, when the
\* node had no tab), and every event for the node appends exactly one log
\* entry to that node's tab and to no other tab.
C39_StatusAndLogs == [][C39_Step]_vars

\* a tab went from running to complete, a later tool_start left it complete,
\* and each of the three events left one log entry
C39_Witness ==
    /\ "aci" \in DOMAIN agent_tabs
    /\ agent_tabs["aci"].status = "complete"
    /\ Len(agent_tabs["aci"].logs) = 3
    /\ agent_tabs["aci"].logs[1].status = "chain_start"
    /\ agent_tabs["aci"].logs[2].status = "chain_end"
    /\ agent_tabs["aci"].logs[3].status = "tool_start"

====
